---- MODULE Spec2Model ----
(***************************************************************************)
(* A model of the yas6502 two-pass assembler: the expression evaluator,   *)
(* the symbol table, Pass 1 (sizing) and Pass 2 (emission) over a parsed  *)
(* statement list, as driven by Assembler::assemble.                      *)
(*                                                                         *)
(* Names (labels, symbols, mnemonics) are sequences of one-character      *)
(* strings so that toUpper is a real conversion.  The image is the        *)
(* partial function of the cells written; an absent address reads -1.     *)
(***************************************************************************)
EXTENDS Integers, Sequences, FiniteSets, TLC

(***************************************************************************)
(* Program constants                                                       *)
(***************************************************************************)
\* 0xFFFF: the last address of the 6502 address space
MemTop == 65535

\* 0xFF: the largest value of an unsigned byte / last zero page address
ByteMax == 255

\* the value an undefined symbol or expression result carries
Placeholder == 1

\* marker of an encoding that an Opcode does not have
NoEncoding == -1
NoStatus == -1
HexBase == 16
AddressWidth == 4
ByteWidth == 2
LineBytes == 16

(***************************************************************************)
(* Bounds of the model                                                     *)
(***************************************************************************)
\* longest program built freely from the statement alphabet
MaxStmts == 3

(***************************************************************************)
(* utility: toUpper                                                        *)
(***************************************************************************)
UpperChar(c) ==
    CASE c = "f" -> "F"
      [] c = "o" -> "O"
      [] c = "l" -> "L"
      [] c = "d" -> "D"
      [] c = "a" -> "A"
      [] c = "b" -> "B"
      [] c = "u" -> "U"
      [] OTHER -> c

\* a conversion that leaves the string as it is
toUpperAsIs(s) == s

toUpper(s) == [i \in 1..Len(s) |-> UpperChar(s[i])]

(***************************************************************************)
(* Expressions (ast::Expression and its subclasses)                        *)
(***************************************************************************)
Const(v) == [k |-> "const", v |-> v]
Sym(s) == [k |-> "sym", s |-> s]
Here == [k |-> "loc"]
NegOf(e) == [k |-> "neg", e |-> e]
Bin(op, l, r) == [k |-> "bin", op |-> op, l |-> l, r |-> r]
NoExpr == [k |-> "none"]

(***************************************************************************)
(* ExprResult: defined() is undefinedSymbols_.empty().  A thrown Error     *)
(* ("Divide by zero.") is carried in err.                                  *)
(***************************************************************************)
ExprValue(v) == [err |-> FALSE, undef |-> {}, val |-> v]
ExprUndefined(syms) == [err |-> FALSE, undef |-> syms, val |-> Placeholder]
ExprThrow == [err |-> TRUE, undef |-> {}, val |-> 0]
Defined(er) == er.undef = {}

\* C++ integer division truncates toward zero
TruncDiv(a, b) ==
    IF (a >= 0) = (b > 0)
        THEN (IF a >= 0 THEN a \div b ELSE (-a) \div (-b))
        ELSE -((IF a >= 0 THEN a ELSE -a) \div (IF b > 0 THEN b ELSE -b))

(***************************************************************************)
(* Symbol table: a function from upper-cased names to Symbol records       *)
(***************************************************************************)
DefaultSymbol == [defined |-> FALSE, value |-> Placeholder]

lookup(symbols, name) ==
    IF toUpper(name) \in DOMAIN symbols THEN symbols[toUpper(name)] ELSE DefaultSymbol

\* setValue without the test for an earlier, different value
setValueOverwriting(symbols, name, value) ==
    LET uname == toUpper(name)
    IN  [err |-> FALSE,
         symbols |-> [n \in DOMAIN symbols \cup {uname} |->
                         IF n = uname THEN [defined |-> TRUE, value |-> value]
                                      ELSE symbols[n]]]

\* setValue: [err, symbols]; err is the thrown "Cannot redefine symbol"
setValue(symbols, name, value) ==
    LET uname == toUpper(name)
        oldValue == IF uname \in DOMAIN symbols THEN symbols[uname] ELSE DefaultSymbol
    IN  IF oldValue.defined /\ oldValue.value # value
            THEN [err |-> TRUE, symbols |-> symbols]
            ELSE [err |-> FALSE,
                  symbols |-> [n \in DOMAIN symbols \cup {uname} |->
                                  IF n = uname THEN [defined |-> TRUE, value |-> value]
                                               ELSE symbols[n]]]

(***************************************************************************)
(* Expression evaluation against a pass (its symbol table and loc)         *)
(***************************************************************************)
RECURSIVE eval(_, _, _)
eval(e, symbols, loc) ==
    CASE e.k = "const" -> ExprValue(e.v)
      [] e.k = "loc" -> ExprValue(loc)
      [] e.k = "sym" ->
            LET sym == lookup(symbols, e.s)
            IN  IF ~sym.defined THEN ExprUndefined({e.s}) ELSE ExprValue(sym.value)
      [] e.k = "neg" ->
            LET op == eval(e.e, symbols, loc)
            IN  IF op.err \/ ~Defined(op) THEN op ELSE ExprValue(-op.val)
      [] e.k = "bin" ->
            LET left == eval(e.l, symbols, loc)
                right == eval(e.r, symbols, loc)
            IN  IF left.err \/ right.err THEN ExprThrow
                ELSE IF ~Defined(left) \/ ~Defined(right)
                    THEN ExprUndefined(left.undef \cup right.undef)
                ELSE CASE e.op = "+" -> ExprValue(left.val + right.val)
                       [] e.op = "-" -> ExprValue(left.val - right.val)
                       [] e.op = "*" -> ExprValue(left.val * right.val)
                       [] e.op = "/" ->
                            IF right.val = 0 THEN ExprThrow
                            ELSE ExprValue(TruncDiv(left.val, right.val))


(***************************************************************************)
(* Opcode table (the mnemonics used by the model's programs)               *)
(***************************************************************************)
NoOpcode ==
    [accumulator |-> NoEncoding, immediate |-> NoEncoding, implied |-> NoEncoding,
     zeroPage |-> NoEncoding, zeroPageX |-> NoEncoding, zeroPageY |-> NoEncoding,
     absolute |-> NoEncoding, absoluteX |-> NoEncoding, absoluteY |-> NoEncoding,
     indirect |-> NoEncoding, indirectX |-> NoEncoding, indirectY |-> NoEncoding,
     relative |-> NoEncoding]

ASL == <<"A", "S", "L">>
BNE == <<"B", "N", "E">>
JMP == <<"J", "M", "P">>
LDA == <<"L", "D", "A">>
LDX == <<"L", "D", "X">>
SEI == <<"S", "E", "I">>
STX == <<"S", "T", "X">>
STY == <<"S", "T", "Y">>
\* two undocumented mnemonics, known to the table of Instruction objects only
SHY == <<"S", "H", "Y">>
TAS == <<"T", "A", "S">>

makeOpcodeMap ==
    (ASL :> [NoOpcode EXCEPT !.accumulator = 10, !.zeroPage = 6, !.zeroPageX = 22,
                             !.absolute = 14, !.absoluteX = 30])
 @@ (BNE :> [NoOpcode EXCEPT !.relative = 208])
 @@ (JMP :> [NoOpcode EXCEPT !.absolute = 76, !.indirect = 108])
 @@ (LDA :> [NoOpcode EXCEPT !.immediate = 169, !.zeroPage = 165, !.zeroPageX = 181,
                             !.absolute = 173, !.absoluteX = 189, !.absoluteY = 185,
                             !.indirectX = 161, !.indirectY = 177])
 @@ (LDX :> [NoOpcode EXCEPT !.immediate = 162, !.zeroPage = 166, !.zeroPageY = 182,
                             !.absolute = 174, !.absoluteY = 190])
 @@ (SEI :> [NoOpcode EXCEPT !.implied = 120])
 @@ (STX :> [NoOpcode EXCEPT !.zeroPage = 134, !.zeroPageY = 150, !.absolute = 142])
 @@ (STY :> [NoOpcode EXCEPT !.zeroPage = 132, !.zeroPageX = 148, !.absolute = 140])

\* Instruction::hasEncoding
hasEncoding(instr, mode) == instr[mode] # NoEncoding

(***************************************************************************)
(* The opcode table of the Instruction and Encoding classes: every         *)
(* encoding carries its opcode byte, its clocks and its flags, and an      *)
(* instruction maps the addressing modes it has to their encodings.        *)
(***************************************************************************)
\* Encoding::Encoding(unsigned opcode)
Encoding(opcode) ==
    [exists |-> TRUE, opcode |-> opcode, clocks |-> 0,
     undocumented |-> FALSE, unstable |-> FALSE, extraClocks |-> FALSE]

\* Encoding::setUndocumented, setUnstable, setClocks, setExtraClocks
setUndocumented(e) == [e EXCEPT !.undocumented = TRUE]
setUnstable(e) == [e EXCEPT !.unstable = TRUE]
setClocks(e, clocks) == [e EXCEPT !.clocks = clocks]
setExtraClocks(e) == [e EXCEPT !.extraClocks = TRUE]

\* a chain of assignments map[key] = value on a std::map that starts empty,
\* list holding the <<key, value>> pairs in the order of the source: every
\* key assigned is present and holds the value assigned to it last
assignAll(list) ==
    [k \in {list[n][1] : n \in DOMAIN list} |->
        LET last == CHOOSE n \in DOMAIN list :
                        /\ list[n][1] = k
                        /\ \A m \in DOMAIN list : list[m][1] = k => m <= n
        IN  list[last][2]]

\* Instruction::Instruction(mnemonic) followed by its chain of
\* Instruction::addEncoding calls, each encodings_[mode] = encoding
InstructionOf(mnemonic, list) ==
    [mnemonic |-> mnemonic, encodings |-> assignAll(list)]

\* Instruction::hasEncoding: encodings_.find(mode) != encodings_.end()
encodingExists(instr, mode) == mode \in DOMAIN instr.encodings

\* the local Instruction objects SHY and TAS of makeOpcodeMap
SHYInstruction ==
    InstructionOf("SHY",
      << <<"AbsoluteX", setUnstable(setUndocumented(setClocks(Encoding(156), 5)))>> >>)

TASInstruction ==
    InstructionOf("TAS",
      << <<"AbsoluteY", setUnstable(setUndocumented(setClocks(Encoding(155), 5)))>> >>)

\* the assignments opcodes["KEY"] = instruction of makeOpcodeMap, in order
OpcodeAssignments ==
 << <<"ADC",
    InstructionOf("ADC",
      << <<"Immediate", setClocks(Encoding(105), 2)>>,
         <<"ZeroPage", setClocks(Encoding(101), 3)>>,
         <<"ZeroPageX", setClocks(Encoding(117), 4)>>,
         <<"Absolute", setClocks(Encoding(109), 4)>>,
         <<"AbsoluteX", setExtraClocks(setClocks(Encoding(125), 4))>>,
         <<"AbsoluteY", setExtraClocks(setClocks(Encoding(121), 4))>>,
         <<"IndirectX", setClocks(Encoding(97), 6)>>,
         <<"IndirectY", setExtraClocks(setClocks(Encoding(113), 5))>> >>)>>,
    <<"AND",
    InstructionOf("AND",
      << <<"Immediate", setClocks(Encoding(41), 2)>>,
         <<"ZeroPage", setClocks(Encoding(37), 3)>>,
         <<"ZeroPageX", setClocks(Encoding(53), 4)>>,
         <<"Absolute", setClocks(Encoding(45), 4)>>,
         <<"AbsoluteX", setExtraClocks(setClocks(Encoding(61), 4))>>,
         <<"AbsoluteY", setExtraClocks(setClocks(Encoding(57), 4))>>,
         <<"IndirectX", setClocks(Encoding(33), 6)>>,
         <<"IndirectY", setExtraClocks(setClocks(Encoding(49), 5))>> >>)>>,
    <<"ASL",
    InstructionOf("ASL",
      << <<"Accumulator", setClocks(Encoding(10), 2)>>,
         <<"ZeroPage", setClocks(Encoding(6), 5)>>,
         <<"ZeroPageX", setClocks(Encoding(22), 6)>>,
         <<"Absolute", setClocks(Encoding(14), 6)>>,
         <<"AbsoluteX", setClocks(Encoding(30), 7)>> >>)>>,
    <<"BCC",
    InstructionOf("BCC",
      << <<"Relative", setExtraClocks(setClocks(Encoding(144), 2))>> >>)>>,
    <<"BCS",
    InstructionOf("BCS",
      << <<"Relative", setExtraClocks(setClocks(Encoding(176), 2))>> >>)>>,
    <<"BEQ",
    InstructionOf("BEQ",
      << <<"Relative", setExtraClocks(setClocks(Encoding(240), 2))>> >>)>>,
    <<"BIT",
    InstructionOf("BIT",
      << <<"ZeroPage", setClocks(Encoding(36), 3)>>,
         <<"Absolute", setClocks(Encoding(44), 4)>> >>)>>,
    <<"BMI",
    InstructionOf("BMI",
      << <<"Relative", setExtraClocks(setClocks(Encoding(48), 2))>> >>)>>,
    <<"BNE",
    InstructionOf("BNE",
      << <<"Relative", setExtraClocks(setClocks(Encoding(208), 2))>> >>)>>,
    <<"BPL",
    InstructionOf("BPL",
      << <<"Relative", setExtraClocks(setClocks(Encoding(16), 2))>> >>)>>,
    <<"BRK",
    InstructionOf("BRK",
      << <<"Implied", setClocks(Encoding(0), 7)>> >>)>>,
    <<"BVC",
    InstructionOf("BVC",
      << <<"Relative", setExtraClocks(setClocks(Encoding(80), 2))>> >>)>>,
    <<"BVS",
    InstructionOf("BVS",
      << <<"Relative", setExtraClocks(setClocks(Encoding(112), 2))>> >>)>>,
    <<"CLC",
    InstructionOf("CLC",
      << <<"Implied", setClocks(Encoding(24), 2)>> >>)>>,
    <<"CLD",
    InstructionOf("CLD",
      << <<"Implied", setClocks(Encoding(216), 2)>> >>)>>,
    <<"CLI",
    InstructionOf("CLI",
      << <<"Implied", setClocks(Encoding(88), 2)>> >>)>>,
    <<"CLV",
    InstructionOf("CLV",
      << <<"Implied", setClocks(Encoding(184), 2)>> >>)>>,
    <<"CMP",
    InstructionOf("CMP",
      << <<"Immediate", setClocks(Encoding(201), 2)>>,
         <<"ZeroPage", setClocks(Encoding(197), 3)>>,
         <<"ZeroPageX", setClocks(Encoding(213), 4)>>,
         <<"Absolute", setClocks(Encoding(205), 4)>>,
         <<"AbsoluteX", setExtraClocks(setClocks(Encoding(221), 4))>>,
         <<"AbsoluteY", setExtraClocks(setClocks(Encoding(217), 4))>>,
         <<"IndirectX", setClocks(Encoding(193), 6)>>,
         <<"IndirectY", setExtraClocks(setClocks(Encoding(209), 5))>> >>)>>,
    <<"CPX",
    InstructionOf("CPX",
      << <<"Immediate", setClocks(Encoding(224), 2)>>,
         <<"ZeroPage", setClocks(Encoding(228), 3)>>,
         <<"Absolute", setClocks(Encoding(236), 4)>> >>)>>,
    <<"CPY",
    InstructionOf("CPY",
      << <<"Immediate", setClocks(Encoding(192), 2)>>,
         <<"ZeroPage", setClocks(Encoding(196), 3)>>,
         <<"Absolute", setClocks(Encoding(204), 4)>> >>)>>,
    <<"DEC",
    InstructionOf("DEC",
      << <<"ZeroPage", setClocks(Encoding(198), 5)>>,
         <<"ZeroPageX", setClocks(Encoding(214), 6)>>,
         <<"Absolute", setClocks(Encoding(206), 6)>>,
         <<"AbsoluteX", setClocks(Encoding(222), 7)>> >>)>>,
    <<"DEX",
    InstructionOf("DEX",
      << <<"Implied", setClocks(Encoding(202), 2)>> >>)>>,
    <<"DEY",
    InstructionOf("DEY",
      << <<"Implied", setClocks(Encoding(136), 2)>> >>)>>,
    <<"EOR",
    InstructionOf("EOR",
      << <<"Immediate", setClocks(Encoding(73), 2)>>,
         <<"ZeroPage", setClocks(Encoding(69), 3)>>,
         <<"ZeroPageX", setClocks(Encoding(85), 4)>>,
         <<"Absolute", setClocks(Encoding(77), 4)>>,
         <<"AbsoluteX", setExtraClocks(setClocks(Encoding(93), 4))>>,
         <<"AbsoluteY", setExtraClocks(setClocks(Encoding(89), 4))>>,
         <<"IndirectX", setClocks(Encoding(65), 6)>>,
         <<"IndirectY", setExtraClocks(setClocks(Encoding(81), 5))>> >>)>>,
    <<"INC",
    InstructionOf("INC",
      << <<"ZeroPage", setClocks(Encoding(230), 5)>>,
         <<"ZeroPageX", setClocks(Encoding(246), 6)>>,
         <<"Absolute", setClocks(Encoding(238), 6)>>,
         <<"AbsoluteX", setClocks(Encoding(254), 7)>> >>)>>,
    <<"INX",
    InstructionOf("INX",
      << <<"Implied", setClocks(Encoding(232), 2)>> >>)>>,
    <<"INY",
    InstructionOf("INY",
      << <<"Implied", setClocks(Encoding(200), 2)>> >>)>>,
    <<"JMP",
    InstructionOf("JMP",
      << <<"Absolute", setClocks(Encoding(76), 3)>>,
         <<"Indirect", setClocks(Encoding(108), 5)>> >>)>>,
    <<"JSR",
    InstructionOf("JSR",
      << <<"Absolute", setClocks(Encoding(32), 6)>> >>)>>,
    <<"LDA",
    InstructionOf("LDA",
      << <<"Immediate", setClocks(Encoding(169), 2)>>,
         <<"ZeroPage", setClocks(Encoding(165), 3)>>,
         <<"ZeroPageX", setClocks(Encoding(181), 4)>>,
         <<"Absolute", setClocks(Encoding(173), 4)>>,
         <<"AbsoluteX", setExtraClocks(setClocks(Encoding(189), 4))>>,
         <<"AbsoluteY", setExtraClocks(setClocks(Encoding(185), 4))>>,
         <<"IndirectX", setClocks(Encoding(161), 6)>>,
         <<"IndirectY", setExtraClocks(setClocks(Encoding(177), 5))>> >>)>>,
    <<"LDX",
    InstructionOf("LDX",
      << <<"Immediate", setClocks(Encoding(162), 2)>>,
         <<"ZeroPage", setClocks(Encoding(166), 3)>>,
         <<"ZeroPageY", setClocks(Encoding(182), 4)>>,
         <<"Absolute", setClocks(Encoding(174), 4)>>,
         <<"AbsoluteY", setExtraClocks(setClocks(Encoding(190), 4))>> >>)>>,
    <<"LDY",
    InstructionOf("LDY",
      << <<"Immediate", setClocks(Encoding(160), 2)>>,
         <<"ZeroPage", setClocks(Encoding(164), 3)>>,
         <<"ZeroPageX", setClocks(Encoding(180), 4)>>,
         <<"Absolute", setClocks(Encoding(172), 4)>>,
         <<"AbsoluteX", setExtraClocks(setClocks(Encoding(188), 4))>> >>)>>,
    <<"LSR",
    InstructionOf("LSR",
      << <<"Accumulator", setClocks(Encoding(74), 2)>>,
         <<"ZeroPage", setClocks(Encoding(70), 5)>>,
         <<"ZeroPageX", setClocks(Encoding(86), 6)>>,
         <<"Absolute", setClocks(Encoding(78), 6)>>,
         <<"AbsoluteX", setClocks(Encoding(94), 7)>> >>)>>,
    <<"NOP",
    InstructionOf("NOP",
      << <<"Implied", setClocks(Encoding(234), 2)>>,
         <<"Immediate", setUndocumented(setClocks(Encoding(128), 2))>>,
         <<"ZeroPage", setUndocumented(setClocks(Encoding(4), 3))>>,
         <<"ZeroPageX", setUndocumented(setClocks(Encoding(20), 4))>>,
         <<"Absolute", setUndocumented(setClocks(Encoding(12), 4))>>,
         <<"AbsoluteX", setUndocumented(setExtraClocks(setClocks(Encoding(28), 4)))>> >>)>>,
    <<"ORA",
    InstructionOf("ORA",
      << <<"Immediate", setClocks(Encoding(9), 2)>>,
         <<"ZeroPage", setClocks(Encoding(5), 3)>>,
         <<"ZeroPageX", setClocks(Encoding(21), 4)>>,
         <<"Absolute", setClocks(Encoding(13), 4)>>,
         <<"AbsoluteX", Encoding(29)>>,
         <<"AbsoluteY", setExtraClocks(setClocks(Encoding(25), 4))>>,
         <<"IndirectX", setClocks(Encoding(1), 6)>>,
         <<"IndirectY", setExtraClocks(setClocks(Encoding(17), 5))>> >>)>>,
    <<"PHA",
    InstructionOf("PHA",
      << <<"Implied", setClocks(Encoding(72), 3)>> >>)>>,
    <<"PHP",
    InstructionOf("PHP",
      << <<"Implied", setClocks(Encoding(8), 3)>> >>)>>,
    <<"PLA",
    InstructionOf("PLA",
      << <<"Implied", setClocks(Encoding(104), 4)>> >>)>>,
    <<"PLP",
    InstructionOf("PLP",
      << <<"Implied", setClocks(Encoding(40), 4)>> >>)>>,
    <<"ROL",
    InstructionOf("ROL",
      << <<"Accumulator", setClocks(Encoding(42), 2)>>,
         <<"ZeroPage", setClocks(Encoding(38), 5)>>,
         <<"ZeroPageX", setClocks(Encoding(54), 6)>>,
         <<"Absolute", setClocks(Encoding(46), 6)>>,
         <<"AbsoluteX", setClocks(Encoding(62), 7)>> >>)>>,
    <<"ROR",
    InstructionOf("ROR",
      << <<"Accumulator", setClocks(Encoding(106), 2)>>,
         <<"ZeroPage", setClocks(Encoding(102), 5)>>,
         <<"ZeroPageX", setClocks(Encoding(118), 6)>>,
         <<"Absolute", setClocks(Encoding(110), 6)>>,
         <<"AbsoluteX", setClocks(Encoding(126), 7)>> >>)>>,
    <<"RTI",
    InstructionOf("RTI",
      << <<"Implied", setClocks(Encoding(64), 6)>> >>)>>,
    <<"RTS",
    InstructionOf("RTS",
      << <<"Implied", setClocks(Encoding(96), 6)>> >>)>>,
    <<"SBC",
    InstructionOf("SBC",
      << <<"Immediate", setClocks(Encoding(233), 2)>>,
         <<"ZeroPage", setClocks(Encoding(229), 3)>>,
         <<"ZeroPageX", setClocks(Encoding(245), 4)>>,
         <<"Absolute", setClocks(Encoding(237), 4)>>,
         <<"AbsoluteX", setExtraClocks(setClocks(Encoding(253), 4))>>,
         <<"AbsoluteY", setExtraClocks(setClocks(Encoding(249), 4))>>,
         <<"IndirectX", setClocks(Encoding(225), 6)>>,
         <<"IndirectY", setExtraClocks(setClocks(Encoding(241), 5))>> >>)>>,
    <<"SEC",
    InstructionOf("SEC",
      << <<"Implied", setClocks(Encoding(56), 2)>> >>)>>,
    <<"SED",
    InstructionOf("SED",
      << <<"Implied", setClocks(Encoding(248), 2)>> >>)>>,
    <<"SEI",
    InstructionOf("SEI",
      << <<"Implied", setClocks(Encoding(120), 2)>> >>)>>,
    <<"STA",
    InstructionOf("STA",
      << <<"ZeroPage", setClocks(Encoding(133), 3)>>,
         <<"ZeroPageX", setClocks(Encoding(149), 4)>>,
         <<"Absolute", setClocks(Encoding(141), 4)>>,
         <<"AbsoluteX", setClocks(Encoding(157), 5)>>,
         <<"AbsoluteY", setClocks(Encoding(153), 5)>>,
         <<"IndirectX", setClocks(Encoding(129), 6)>>,
         <<"IndirectY", setClocks(Encoding(145), 6)>> >>)>>,
    <<"STX",
    InstructionOf("STX",
      << <<"ZeroPage", setClocks(Encoding(134), 3)>>,
         <<"ZeroPageY", setClocks(Encoding(150), 4)>>,
         <<"Absolute", setClocks(Encoding(142), 4)>> >>)>>,
    <<"STY",
    InstructionOf("STY",
      << <<"ZeroPage", setClocks(Encoding(132), 3)>>,
         <<"ZeroPageX", Encoding(148)>>,
         <<"Absolute", setClocks(Encoding(140), 4)>> >>)>>,
    <<"TAX",
    InstructionOf("TAX",
      << <<"Implied", setClocks(Encoding(170), 2)>> >>)>>,
    <<"TAY",
    InstructionOf("TAY",
      << <<"Implied", setClocks(Encoding(168), 2)>> >>)>>,
    <<"TSX",
    InstructionOf("TSX",
      << <<"Implied", setClocks(Encoding(186), 2)>> >>)>>,
    <<"TXA",
    InstructionOf("TXA",
      << <<"Implied", setClocks(Encoding(138), 2)>> >>)>>,
    <<"TXS",
    InstructionOf("TXS",
      << <<"Implied", setClocks(Encoding(154), 2)>> >>)>>,
    <<"TYA",
    InstructionOf("TYA",
      << <<"Implied", setClocks(Encoding(152), 2)>> >>)>>,
    <<"SLO",
    InstructionOf("SLO",
      << <<"ZeroPage", setUndocumented(setClocks(Encoding(7), 5))>>,
         <<"ZeroPageX", setUndocumented(setClocks(Encoding(23), 6))>>,
         <<"IndirectX", setUndocumented(setClocks(Encoding(3), 8))>>,
         <<"IndirectY", setUndocumented(setClocks(Encoding(19), 8))>>,
         <<"Absolute", setUndocumented(setClocks(Encoding(15), 6))>>,
         <<"AbsoluteX", setUndocumented(setClocks(Encoding(31), 7))>>,
         <<"AbsoluteY", setUndocumented(setClocks(Encoding(27), 7))>> >>)>>,
    <<"RLA",
    InstructionOf("RLA",
      << <<"ZeroPage", setUndocumented(setClocks(Encoding(39), 5))>>,
         <<"ZeroPageX", setUndocumented(setClocks(Encoding(55), 6))>>,
         <<"IndirectX", setUndocumented(setClocks(Encoding(35), 8))>>,
         <<"IndirectY", setUndocumented(setClocks(Encoding(51), 8))>>,
         <<"Absolute", setUndocumented(setClocks(Encoding(47), 6))>>,
         <<"AbsoluteX", setUndocumented(setClocks(Encoding(63), 7))>>,
         <<"AbsoluteY", setUndocumented(setClocks(Encoding(59), 7))>> >>)>>,
    <<"SRE",
    InstructionOf("SRE",
      << <<"ZeroPage", setUndocumented(setClocks(Encoding(71), 5))>>,
         <<"ZeroPageX", setUndocumented(setClocks(Encoding(87), 6))>>,
         <<"IndirectX", setUndocumented(setClocks(Encoding(67), 8))>>,
         <<"IndirectY", setUndocumented(setClocks(Encoding(83), 8))>>,
         <<"Absolute", setUndocumented(setClocks(Encoding(79), 6))>>,
         <<"AbsoluteX", setUndocumented(setClocks(Encoding(95), 7))>>,
         <<"AbsoluteY", setUndocumented(setClocks(Encoding(91), 7))>> >>)>>,
    <<"RRA",
    InstructionOf("RRA",
      << <<"ZeroPage", setUndocumented(setClocks(Encoding(103), 5))>>,
         <<"ZeroPageX", setUndocumented(setClocks(Encoding(119), 6))>>,
         <<"IndirectX", setUndocumented(setClocks(Encoding(99), 8))>>,
         <<"IndirectY", setUndocumented(setClocks(Encoding(115), 8))>>,
         <<"Absolute", setUndocumented(setClocks(Encoding(111), 6))>>,
         <<"AbsoluteX", setUndocumented(setClocks(Encoding(127), 7))>>,
         <<"AbsoluteY", setUndocumented(setClocks(Encoding(123), 7))>> >>)>>,
    <<"SAX",
    InstructionOf("SAX",
      << <<"ZeroPage", setUndocumented(setClocks(Encoding(135), 3))>>,
         <<"ZeroPageY", setUndocumented(setClocks(Encoding(151), 4))>>,
         <<"IndirectX", setUndocumented(setClocks(Encoding(131), 6))>>,
         <<"Absolute", setUndocumented(setClocks(Encoding(143), 4))>> >>)>>,
    <<"LAX",
    InstructionOf("LAX",
      << <<"Immediate", setUnstable(setUndocumented(setClocks(Encoding(171), 2)))>>,
         <<"ZeroPage", setUndocumented(setClocks(Encoding(167), 3))>>,
         <<"ZeroPageY", setUndocumented(setClocks(Encoding(183), 4))>>,
         <<"IndirectX", setUndocumented(setClocks(Encoding(163), 6))>>,
         <<"IndirectY", setUndocumented(setExtraClocks(setClocks(Encoding(179), 5)))>>,
         <<"Absolute", setUndocumented(setClocks(Encoding(175), 4))>>,
         <<"AbsoluteY", setUndocumented(setExtraClocks(setClocks(Encoding(191), 4)))>> >>)>>,
    <<"DCP",
    InstructionOf("DCP",
      << <<"ZeroPage", setUndocumented(setClocks(Encoding(199), 5))>>,
         <<"ZeroPageX", setUndocumented(setClocks(Encoding(215), 6))>>,
         <<"IndirectX", setUndocumented(setClocks(Encoding(195), 8))>>,
         <<"IndirectY", setUndocumented(setClocks(Encoding(211), 8))>>,
         <<"Absolute", setUndocumented(setClocks(Encoding(207), 6))>>,
         <<"AbsoluteX", setUndocumented(setClocks(Encoding(223), 7))>>,
         <<"AbsoluteY", setUndocumented(setClocks(Encoding(219), 7))>> >>)>>,
    <<"ISC",
    InstructionOf("ISC",
      << <<"ZeroPage", setUndocumented(setClocks(Encoding(231), 5))>>,
         <<"ZeroPageX", setUndocumented(setClocks(Encoding(247), 6))>>,
         <<"IndirectX", setUndocumented(setClocks(Encoding(227), 8))>>,
         <<"IndirectY", setUndocumented(setClocks(Encoding(243), 8))>>,
         <<"Absolute", setUndocumented(setClocks(Encoding(239), 6))>>,
         <<"AbsoluteX", setUndocumented(setClocks(Encoding(255), 7))>>,
         <<"AbsoluteY", setUndocumented(setClocks(Encoding(251), 7))>> >>)>>,
    <<"ANC",
    InstructionOf("ANC",
      << <<"Immediate", setUndocumented(setClocks(Encoding(11), 2))>> >>)>>,
    <<"ALR",
    InstructionOf("ALR",
      << <<"Immediate", setUndocumented(setClocks(Encoding(75), 2))>> >>)>>,
    <<"ARR",
    InstructionOf("ARR",
      << <<"Immediate", setUndocumented(setClocks(Encoding(107), 2))>> >>)>>,
    <<"XAA",
    InstructionOf("XAA",
      << <<"Immediate", setUnstable(setUndocumented(setClocks(Encoding(139), 2)))>> >>)>>,
    <<"AXS",
    InstructionOf("AXS",
      << <<"Immediate", setUndocumented(setClocks(Encoding(203), 2))>> >>)>>,
    <<"AHX",
    InstructionOf("AHX",
      << <<"IndirectY", setUnstable(setUndocumented(setClocks(Encoding(147), 6)))>>,
         <<"AbsoluteY", setUnstable(setUndocumented(setClocks(Encoding(159), 5)))>> >>)>>,
    <<"SHX",
    InstructionOf("SHX",
      << <<"AbsoluteY", setUnstable(setUndocumented(setClocks(Encoding(158), 5)))>> >>)>>,
    <<"SHY", SHYInstruction>>,
    <<"TAS", SHYInstruction>>,
    <<"LAS",
    InstructionOf("LAS",
      << <<"AbsoluteY", setUndocumented(setExtraClocks(setClocks(Encoding(187), 4)))>> >>)>> >>

\* the table had STX lost its Absolute encoding
InstructionMapWithoutAbsolute ==
    assignAll(OpcodeAssignments \o
        << <<"STX", InstructionOf("STX",
                     << <<"ZeroPage", setClocks(Encoding(134), 3)>> >>)>> >>)

\* the map makeOpcodeMap returns
InstructionMap == assignAll(OpcodeAssignments)

(***************************************************************************)
(* A frame is the state one statement handler works on: the pass (loc,     *)
(* counters, messages), the symbol table, the image, the node's computed   *)
(* fields, and the Error in flight, if any (thrown).  Once an Error is     *)
(* thrown the rest of the handler is skipped.  emitted and er are history: *)
(* the bytes this handler stored and the ExprResult local of               *)
(* InstructionNode::pass1.                                                 *)
(***************************************************************************)
Frame(pass, symbols, img, node) ==
    [loc |-> pass.loc, errors |-> pass.errors, warnings |-> pass.warnings,
     messages |-> pass.messages, symbols |-> symbols, image |-> img,
     operandSize |-> node.operandSize, computedLoc |-> node.computedLoc,
     thrown |-> FALSE, thrownWarning |-> FALSE, text |-> "",
     emitted |-> <<>>, er |-> ExprValue(Placeholder)]

\* throw Error{ text, type }
Throw(F, text, warning) ==
    IF F.thrown THEN F
    ELSE [F EXCEPT !.thrown = TRUE, !.thrownWarning = warning, !.text = text]

\* Pass::pushMessage
pushMessage(F, warning, line, text) ==
    IF F.thrown THEN F
    ELSE [F EXCEPT !.messages = Append(@, [warning |-> warning, line |-> line, text |-> text]),
                   !.warnings = IF warning THEN @ + 1 ELSE @,
                   !.errors = IF warning THEN @ ELSE @ + 1]

\* Pass::setLoc had it no range test
setLocUnchecked(F, loc) ==
    IF F.thrown THEN F ELSE [F EXCEPT !.loc = loc]

\* Pass::setLoc
setLoc(F, loc) ==
    IF F.thrown THEN F
    ELSE IF loc > MemTop + 1 THEN Throw(F, "Location counter cannot exceed $FFFF.", FALSE)
    ELSE IF loc < 0 THEN Throw(F, "Location counter cannot be negative.", FALSE)
    ELSE [F EXCEPT !.loc = loc]

\* symtab().setValue(name, value) from inside a handler
symtabSetValue(F, name, value) ==
    IF F.thrown THEN F
    ELSE LET r == setValue(F.symbols, name, value)
         IN  IF r.err THEN Throw(F, "Cannot redefine symbol.", FALSE)
             ELSE [F EXCEPT !.symbols = r.symbols]

\* the catch block of Pass1::pass1 and Pass2::pass2
Catch(F, line) ==
    IF ~F.thrown THEN F
    ELSE pushMessage([F EXCEPT !.thrown = FALSE], F.thrownWarning, line, F.text)

\* Pass::findInstruction and Pass::findOpcode
KnownOpcode(op) == toUpper(op) \in DOMAIN makeOpcodeMap
findInstruction(op) == makeOpcodeMap[toUpper(op)]


(***************************************************************************)
(* Pass 1: sizing                                                          *)
(***************************************************************************)
DataSizeBytes(size) == IF size = "Byte" THEN 1 ELSE 2

\* expr->eval(pass) inside a handler: the result, with a thrown
\* "Divide by zero." moved into the frame
EvalThrows(F, e) == eval(e, F.symbols, F.loc).err
EvalIn(F, e) == IF F.thrown THEN ExprThrow ELSE eval(e, F.symbols, F.loc)
AfterEval(F, e) == IF EvalThrows(F, e) THEN Throw(F, "Divide by zero.", FALSE) ELSE F

\* Node::pass1: define the label, if any, at the current location
NodePass1(F, stmt) ==
    IF stmt.label = <<>> THEN F ELSE symtabSetValue(F, stmt.label, F.loc)

\* OrgNode::pass1
OrgPass1(F, stmt, line) ==
    LET F1 == NodePass1(F, stmt)
        er == EvalIn(F1, stmt.expr)
        F2 == AfterEval(F1, stmt.expr)
        F3 == IF ~Defined(er)
                THEN pushMessage(F2, FALSE, line,
                        "ORG expression must be fully defined in pass1.")
                ELSE F2
        F4 == IF F3.thrown THEN F3 ELSE [F3 EXCEPT !.computedLoc = er.val]
    IN  setLoc(F4, er.val)

\* SetNode::pass1
SetPass1(F, stmt, line) ==
    LET F1 == NodePass1(F, stmt)
        er == EvalIn(F1, stmt.expr)
        F2 == AfterEval(F1, stmt.expr)
    IN  IF F2.thrown \/ ~Defined(er) THEN F2
        ELSE symtabSetValue(F2, stmt.symbol, er.val)

\* the zero page test without its lower bound
FitsZeroPageNoLowerBound(er) == Defined(er) /\ er.val <= ByteMax

\* the zero page test of InstructionNode::pass1 on the evaluated operand:
\* er.defined() && er.value() >= 0 && er.value() <= 0xFF
FitsZeroPage(er) == Defined(er) /\ er.val >= 0 /\ er.val <= ByteMax

ZeroPageModeOf(mode) ==
    CASE mode = "Address" -> "zeroPage"
      [] mode = "AddressX" -> "zeroPageX"
      [] mode = "AddressY" -> "zeroPageY"

\* the switch of InstructionNode::pass1: [size, er, evaluated]
InstructionSize(instr, stmt, F) ==
    LET noEval == ExprValue(Placeholder)
        er == eval(stmt.expr, F.symbols, F.loc)
    IN  CASE stmt.mode \in {"Implied", "Accumulator"} ->
                [size |-> 1, er |-> noEval, evaluated |-> FALSE]
          [] stmt.mode = "Immediate" ->
                [size |-> 2, er |-> noEval, evaluated |-> FALSE]
          [] stmt.mode = "Address" ->
                IF hasEncoding(instr, "relative")
                    THEN [size |-> 2, er |-> noEval, evaluated |-> FALSE]
                ELSE IF hasEncoding(instr, "zeroPage")
                    THEN [size |-> IF ~er.err /\ FitsZeroPage(er) THEN 2 ELSE 3,
                          er |-> er, evaluated |-> TRUE]
                ELSE [size |-> 3, er |-> noEval, evaluated |-> FALSE]
          [] stmt.mode \in {"AddressX", "AddressY"} ->
                IF hasEncoding(instr, ZeroPageModeOf(stmt.mode))
                    THEN [size |-> IF ~er.err /\ FitsZeroPage(er) THEN 2 ELSE 3,
                          er |-> er, evaluated |-> TRUE]
                ELSE [size |-> 3, er |-> noEval, evaluated |-> FALSE]
          [] stmt.mode = "Indirect" ->
                [size |-> 3, er |-> noEval, evaluated |-> FALSE]
          [] stmt.mode \in {"IndirectX", "IndirectY"} ->
                [size |-> 2, er |-> noEval, evaluated |-> FALSE]

\* InstructionNode::pass1
InstructionPass1(F, stmt, line) ==
    LET F1 == NodePass1(F, stmt)
        F2 == IF stmt.expr # NoExpr /\ stmt.paren
                THEN pushMessage(F1, TRUE, line, "Top level expression is parenthesized.")
                ELSE F1
        F3 == IF ~KnownOpcode(stmt.opcode)
                THEN Throw(F2, "Unknown opcode.", FALSE)
                ELSE F2
        sz == InstructionSize(findInstruction(stmt.opcode), stmt, F3)
        F4 == IF F3.thrown THEN F3
              ELSE IF sz.evaluated /\ sz.er.err THEN Throw(F3, "Divide by zero.", FALSE)
              ELSE [F3 EXCEPT !.operandSize = IF sz.size = 3 THEN "Word" ELSE "Byte",
                              !.er = sz.er]
    IN  setLoc(F4, F4.loc + sz.size)

\* the loop of DataNode::pass1 from element i on: [F, elements]
RECURSIVE DataElements1(_, _, _, _, _)
DataElements1(F, data, i, elements, line) ==
    IF i > Len(data) \/ F.thrown THEN [F |-> F, elements |-> elements]
    ELSE IF data[i].count = NoExpr
        THEN DataElements1(F, data, i + 1, elements + 1, line)
    ELSE LET er == EvalIn(F, data[i].count)
         IN  IF er.err
                THEN [F |-> Throw(F, "Divide by zero.", FALSE), elements |-> elements]
             ELSE IF ~Defined(er)
                THEN DataElements1(
                        pushMessage(F, FALSE, line,
                            "REP count expression must be fully defined in pass 1."),
                        data, i + 1, elements, line)
             ELSE IF er.val < 1
                THEN DataElements1(
                        pushMessage(F, FALSE, line, "REP count expression must be positive."),
                        data, i + 1, elements, line)
             ELSE DataElements1(F, data, i + 1, elements + er.val, line)

\* DataNode::pass1
DataPass1(F, stmt, line) ==
    LET F1 == NodePass1(F, stmt)
        r == DataElements1(F1, stmt.data, 1, 0, line)
    IN  setLoc(r.F, r.F.loc + DataSizeBytes(stmt.size) * r.elements)

\* SpaceNode::pass1
SpacePass1(F, stmt, line) ==
    LET er == EvalIn(F, stmt.expr)
        F1 == AfterEval(F, stmt.expr)
        F2 == IF ~Defined(er)
                THEN pushMessage(F1, FALSE, line,
                        "SPACE expression must be fully defined in pass 1.")
                ELSE F1
    IN  setLoc(F2, F2.loc + DataSizeBytes(stmt.size) * er.val)

\* NoopNode has no pass1 of its own
NoopPass1(F, stmt, line) == NodePass1(F, stmt)


(***************************************************************************)
(* Pass 2: emission                                                        *)
(***************************************************************************)
\* byte & 0xFF of an int converted to unsigned
LowByte(v) == v % (ByteMax + 1)

\* value >> 8 (arithmetic shift of an int)
ShiftRight8(v) == v \div (ByteMax + 1)

\* Pass2::emit had it stored the value without byte & 0xFF
emitUnmasked(F, byte) ==
    IF F.thrown THEN F
    ELSE IF F.loc < 0 \/ F.loc >= MemTop
        THEN Throw(F, "Attempt to store data outside the addressing range.", FALSE)
    ELSE [F EXCEPT !.image = (F.loc :> byte) @@ @,
                   !.loc = @ + 1,
                   !.emitted = Append(@, byte)]

\* Pass2::emit
emit(F, byte) ==
    IF F.thrown THEN F
    ELSE IF F.loc < 0 \/ F.loc >= MemTop
        THEN Throw(F, "Attempt to store data outside the addressing range.", FALSE)
    ELSE [F EXCEPT !.image = (F.loc :> LowByte(byte)) @@ @,
                   !.loc = @ + 1,
                   !.emitted = Append(@, LowByte(byte))]

\* Pass2::evalCheckDefined: the frame after the call (thrown when the
\* expression has undefined symbols or divides by zero) and the value
evalCheckDefined(F, e) ==
    IF F.thrown THEN F
    ELSE LET er == eval(e, F.symbols, F.loc)
         IN  IF er.err THEN Throw(F, "Divide by zero.", FALSE)
             ELSE IF ~Defined(er)
                THEN Throw(F, "Symbols are undefined in instruction operand.", FALSE)
             ELSE F

evalValue(F, e) == eval(e, F.symbols, F.loc).val

\* Pass2::checkByte
checkByte(F, value) ==
    IF F.thrown \/ (value >= -128 /\ value <= ByteMax) THEN F
    ELSE Throw(F, "Operand value should fit in one byte; truncated.", TRUE)

\* OrgNode::pass2
OrgPass2(F, stmt) ==
    LET F1 == evalCheckDefined(F, stmt.expr)
        value == evalValue(F, stmt.expr)
        F2 == IF ~F1.thrown /\ value # F1.computedLoc
                THEN Throw(F1, "ORG expression has a different value in pass 2.", FALSE)
                ELSE F1
    IN  setLoc(F2, F2.computedLoc)

\* SetNode::pass2
SetPass2(F, stmt) ==
    LET F1 == evalCheckDefined(F, stmt.expr)
    IN  symtabSetValue(F1, stmt.symbol, evalValue(F, stmt.expr))

\* throwNoMode
throwNoMode(F) == Throw(F, "Opcode has no such mode.", FALSE)

\* case AddrMode::Address of InstructionNode::pass2
AddressPass2(F, stmt, opcode) ==
    LET F1 == evalCheckDefined(F, stmt.expr)
        value == evalValue(F, stmt.expr)
        delta == value - (F.loc + 2)
    IN  IF opcode.relative # NoEncoding
            THEN IF delta < -128 \/ delta > 127
                    THEN Throw(F1, "Relative branch is out of range.", FALSE)
                    ELSE emit(emit(F1, opcode.relative), delta)
        ELSE IF F.operandSize = "Byte"
            THEN emit(emit(F1, opcode.zeroPage), value)
        ELSE emit(emit(emit(F1, opcode.absolute), LowByte(value)), ShiftRight8(value))

\* case AddrMode::AddressX, AddrMode::AddressY of InstructionNode::pass2.
\* In the Word branch op is assigned the absolute,x (absolute,y) opcode; the
\* inner test compares the boolean (op == zeroPageX) with -1 and is never
\* true, so op keeps that value.
IndexedPass2(F, stmt, opcode) ==
    LET F1 == evalCheckDefined(F, stmt.expr)
        value == evalValue(F, stmt.expr)
        isX == stmt.mode = "AddressX"
        zp == IF isX THEN opcode.zeroPageX ELSE opcode.zeroPageY
        abs == IF isX THEN opcode.absoluteX ELSE opcode.absoluteY
        innerTest == (IF abs = zp THEN 1 ELSE 0) = -1
        F2 == IF F.operandSize = "Byte"
                THEN (IF zp = NoEncoding THEN throwNoMode(F1) ELSE F1)
              ELSE IF abs = NoEncoding
                THEN (IF innerTest THEN throwNoMode(F1)
                      ELSE IF value < -127 \/ value > ByteMax
                        THEN Throw(F1, "There is no absolute indexed mode for this instruction, and the address is not in zero page.", FALSE)
                      ELSE IF F1.thrown THEN F1
                      ELSE [F1 EXCEPT !.operandSize = "Byte"])
              ELSE F1
        op == IF F.operandSize = "Byte" THEN zp ELSE abs
        F3 == emit(emit(F2, op), LowByte(value))
    IN  IF F2.operandSize = "Word" THEN emit(F3, ShiftRight8(value)) ELSE F3

\* case AddrMode::IndirectX, AddrMode::IndirectY of InstructionNode::pass2
IndirectIndexedPass2(F, stmt, opcode) ==
    LET op == IF stmt.mode = "IndirectX" THEN opcode.indirectX ELSE opcode.indirectY
        F1 == IF op = NoEncoding THEN throwNoMode(F) ELSE F
        F2 == evalCheckDefined(F1, stmt.expr)
        value == evalValue(F, stmt.expr)
        F3 == emit(emit(F2, opcode.indirect), LowByte(value))
    IN  IF value < 0 \/ value > ByteMax
            THEN Throw(F3, "Address is not in zero page.", FALSE)
            ELSE F3

\* the asserts of InstructionNode::pass2 on the zero page and absolute
\* encodings of an Address operand
AssertFails(F, stmt) ==
    /\ stmt.mode = "Address"
    /\ ~evalCheckDefined(F, stmt.expr).thrown
    /\ LET opcode == findInstruction(stmt.opcode)
       IN  /\ opcode.relative = NoEncoding
           /\ IF F.operandSize = "Byte" THEN opcode.zeroPage = NoEncoding
                                        ELSE opcode.absolute = NoEncoding

\* InstructionNode::pass2
InstructionPass2(F, stmt) ==
    LET opcode == findInstruction(stmt.opcode)
    IN  CASE stmt.mode = "Implied" ->
                IF opcode.implied = NoEncoding THEN throwNoMode(F)
                ELSE emit(F, opcode.implied)
          [] stmt.mode = "Accumulator" ->
                IF opcode.accumulator = NoEncoding THEN throwNoMode(F)
                ELSE emit(F, opcode.accumulator)
          [] stmt.mode = "Immediate" ->
                IF opcode.immediate = NoEncoding THEN throwNoMode(F)
                ELSE LET F1 == evalCheckDefined(F, stmt.expr)
                         value == evalValue(F, stmt.expr)
                     IN  checkByte(emit(emit(F1, opcode.immediate), value), value)
          [] stmt.mode = "Address" -> AddressPass2(F, stmt, opcode)
          [] stmt.mode \in {"AddressX", "AddressY"} -> IndexedPass2(F, stmt, opcode)
          [] stmt.mode = "Indirect" ->
                IF opcode.indirect = NoEncoding THEN throwNoMode(F)
                ELSE LET F1 == evalCheckDefined(F, stmt.expr)
                         value == evalValue(F, stmt.expr)
                     IN  emit(emit(emit(F1, opcode.indirect), LowByte(value)),
                              ShiftRight8(value))
          [] stmt.mode \in {"IndirectX", "IndirectY"} ->
                IndirectIndexedPass2(F, stmt, opcode)

\* the loop of DataNode::pass2 from element i on
RECURSIVE DataElements2(_, _, _, _)
DataElements2(F, data, size, i) ==
    IF i > Len(data) \/ F.thrown THEN F
    ELSE LET F1 == evalCheckDefined(F, data[i].value)
             value == evalValue(F, data[i].value)
             F2 == emit(F1, LowByte(value))
             F3 == IF size = "Byte" THEN checkByte(F2, value)
                                    ELSE emit(F2, ShiftRight8(value))
         IN  DataElements2(F3, data, size, i + 1)

\* DataNode::pass2
DataPass2(F, stmt) == DataElements2(F, stmt.data, stmt.size, 1)

\* Node::pass2, which SpaceNode and NoopNode run
NodePass2(F, stmt) == F


(***************************************************************************)
(* Statements (ast::Node and its subclasses) and the programs checked      *)
(***************************************************************************)
Org(label, e) == [kind |-> "org", label |-> label, expr |-> e]
SetStmt(label, symbol, e) == [kind |-> "set", label |-> label, symbol |-> symbol, expr |-> e]
Instr(label, opcode, mode, e, paren) ==
    [kind |-> "instr", label |-> label, opcode |-> opcode, mode |-> mode, expr |-> e,
     paren |-> paren]
Data(label, size, data) == [kind |-> "data", label |-> label, size |-> size, data |-> data]
Space(label, size, e) == [kind |-> "space", label |-> label, size |-> size, expr |-> e]
Noop(label) == [kind |-> "noop", label |-> label]
Element(count, value) == [count |-> count, value |-> value]

NoLabel == <<>>
FOO == <<"F", "O", "O">>
foo == <<"f", "o", "o">>
BUF == <<"B", "U", "F">>
LBL == <<"L">>
lda == <<"l", "d", "a">>

\* the statements programs are built freely from
FreeStmts ==
    { Org(NoLabel, Const(65535)),
      Org(NoLabel, Const(16)),
      SetStmt(NoLabel, FOO, Const(16)),
      SetStmt(NoLabel, foo, Const(4660)),
      Instr(LBL, SEI, "Implied", NoExpr, FALSE),
      Instr(NoLabel, BNE, "Address", Sym(LBL), FALSE),
      Instr(NoLabel, LDA, "Address", Sym(FOO), TRUE),
      Instr(NoLabel, STY, "AddressX", Sym(foo), FALSE),
      Instr(NoLabel, LDA, "Address", Bin("-", Here, Const(3)), FALSE),
      Instr(NoLabel, LDA, "IndirectX", Const(16), FALSE),
      Space(BUF, "Byte", Const(2)),
      Data(NoLabel, "Byte", <<Element(NoExpr, Const(511)), Element(Const(2), Const(7))>>),
      Data(BUF, "Word", <<Element(NoExpr, Sym(FOO))>>),
      Noop(LBL) }

\* sequences over S of length 1..n
RECURSIVE SeqsUpTo(_, _)
SeqsUpTo(S, n) ==
    IF n = 0 THEN {}
    ELSE LET shorter == SeqsUpTo(S, n - 1)
         IN  {<<x>> : x \in S} \cup shorter \cup {Append(q, x) : q \in shorter, x \in S}

\* one instruction of every mnemonic, mode and operand, between a statement
\* that places it and a SET of the symbol it may refer to
Mnemonics == {ASL, BNE, JMP, LDA, LDX, SEI, STX, STY, lda}
OperandModes ==
    {"Immediate", "Address", "AddressX", "AddressY", "Indirect", "IndirectX", "IndirectY"}
Operands ==
    {Const(16), Const(4660), Const(-1), Sym(FOO), Sym(LBL), Here,
     Bin("/", Const(16), Bin("-", Here, Const(4096))),
     Bin("+", Sym(FOO), Bin("/", Const(16), Const(0)))}
Instructions ==
    {Instr(NoLabel, m, mode, e, FALSE) : m \in Mnemonics, mode \in OperandModes, e \in Operands}
    \cup {Instr(NoLabel, m, mode, NoExpr, FALSE) : m \in Mnemonics,
                                                    mode \in {"Implied", "Accumulator"}}
Placements ==
    {Noop(LBL), Org(NoLabel, Const(4096)), Org(NoLabel, Const(65533)),
     Org(NoLabel, Const(65534))}
Settings == {SetStmt(NoLabel, FOO, Const(16)), SetStmt(NoLabel, foo, Const(4660))}
InstructionPrograms ==
    {<<pre, instr, post>> : pre \in Placements, instr \in Instructions, post \in Settings}

\* two SET statements of different symbols around or before a statement
\* that uses one of them
SetPrograms ==
    LET sets == {SetStmt(NoLabel, FOO, Const(16)), SetStmt(NoLabel, BUF, Const(4660))}
        uses == {Instr(NoLabel, LDA, "Address", Sym(FOO), FALSE),
                 Instr(NoLabel, LDX, "Address", Sym(BUF), FALSE),
                 Data(NoLabel, "Word", <<Element(NoExpr, Sym(BUF))>>)}
    IN  {<<s1, u, s2>> : s1 \in sets, s2 \in sets, u \in uses}
            \cup {<<s1, s2, u>> : s1 \in sets, s2 \in sets, u \in uses}

\* sources that use the undocumented mnemonics
UndocumentedPrograms ==
    {<<Instr(NoLabel, TAS, "AddressY", Const(4660), FALSE)>>,
     <<Instr(NoLabel, TAS, "AddressY", Const(4660), FALSE),
       Instr(NoLabel, SHY, "AddressX", Const(4660), FALSE)>>}

\* sources whose symbols are all given a value: by the label of a BYTES
\* statement, or by a SET that refers to the symbol of a later SET
ResolvingPrograms ==
    {<<Space(BUF, "Byte", Const(2)),
       Instr(NoLabel, LDX, "Address", Sym(BUF), FALSE)>>,
     <<Instr(NoLabel, LDA, "Address", Sym(FOO), FALSE),
       SetStmt(NoLabel, FOO, Sym(BUF)),
       SetStmt(NoLabel, BUF, Const(4660))>>,
     <<SetStmt(NoLabel, FOO, Sym(BUF)),
       SetStmt(NoLabel, BUF, Const(4660)),
       Instr(NoLabel, LDA, "Address", Sym(FOO), FALSE)>>}

\* sources that try to move the location counter out of [0, 0x10000]
RangePrograms ==
    {<<Org(NoLabel, Const(-1)), Instr(NoLabel, SEI, "Implied", NoExpr, FALSE)>>,
     <<Org(NoLabel, Const(65537)), Instr(NoLabel, SEI, "Implied", NoExpr, FALSE)>>,
     <<Org(NoLabel, Const(65536)), Instr(NoLabel, SEI, "Implied", NoExpr, FALSE)>>,
     <<Org(NoLabel, Const(65536)), Data(NoLabel, "Byte", <<Element(NoExpr, Const(16))>>)>>,
     <<Org(NoLabel, Const(16)), Space(NoLabel, "Word", Const(-16))>>}

Programs ==
    SeqsUpTo(FreeStmts, MaxStmts) \cup InstructionPrograms \cup SetPrograms
        \cup UndocumentedPrograms \cup ResolvingPrograms \cup RangePrograms

\* the positions of the SET statements of a program, and the programs that
\* differ from it only by moving SET statements among those positions
SetPositions(prog) == {i \in DOMAIN prog : prog[i].kind = "set"}
Rearranged(prog) ==
    {[i \in DOMAIN prog |-> IF i \in SetPositions(prog) THEN prog[f[i]] ELSE prog[i]] :
        f \in Permutations(SetPositions(prog))} \ {prog}

\* what an int left uninitialized by a constructor may hold
Garbage == {-1, 0}

\* the sources a second assemble call on the same Assembler is given
AgainPrograms ==
    {<<Instr(NoLabel, LDA, "Address", Sym(FOO), TRUE)>>,
     <<Org(NoLabel, Const(65535)), Instr(NoLabel, LDA, "Address", Sym(FOO), TRUE)>>}

(***************************************************************************)
(* State                                                                   *)
(***************************************************************************)
VARIABLES
    program,    \* Assembler::program_: the statements, in source order
    nodes,      \* the computed fields of each node: loc_, nextLoc_, operandSize_, computedLoc_
    symtab,     \* Assembler::symtab_
    pass1,      \* Pass1: loc_, errors_, warnings_, messages_
    pass2,      \* Pass2: loc_, errors_, warnings_, messages_
    image,      \* Pass2::image_: filled, and the cells written since
    phase,      \* where the run is: "main", "pass1", "pass2", "done", "aborted", "exited"
    next,       \* the index of the node the running pass handles next
    history,    \* per node, what the passes did with it (for stating properties)
    driver,     \* main: its arguments, the files it meets and leaves, its exit status
    previous    \* the program and outcome of the run before, when a rearranged source is assembled

vars == <<program, nodes, symtab, pass1, pass2, image, phase, next, history, driver, previous>>

NewPass == [loc |-> 0, errors |-> 0, warnings |-> 0, messages |-> <<>>]
NoCells == [a \in {} |-> 0]
NoPrevious == [program |-> <<>>, image |-> [filled |-> FALSE, cells |-> NoCells]]
NoHistory ==
    [p1 |-> "none", er1 |-> ExprValue(Placeholder),
     p2 |-> "none", start2 |-> 0, end2 |-> 0, emitted |-> <<>>]

\* Pass2::image_ as the constructor leaves it, in memory that holds g: no
\* cell differs from -1, or (one cell standing for all) cell 0 holds g
NewImage(g) == IF g = -1 THEN NoCells ELSE (0 :> g)

\* a file of the driver: absent, stale (left by an earlier run) or written,
\* and then the lines written
Absent == [state |-> "absent", lines |-> <<>>]
Stale == [state |-> "stale", lines |-> <<>>]
Written(lines) == [state |-> "written", lines |-> lines]

\* the driver before main has run: its arguments ("source", "nosource",
\* "badoption", "version"), whether -L or -l was given, whether the source
\* file can be read and the output files opened, and the files at the
\* object and listing paths
Driver(args, listing, readable, objectOpens, listingOpens, objectFile, listingFile) ==
    [mode |-> "main", args |-> args, listing |-> listing, readable |-> readable,
     objectOpens |-> objectOpens, listingOpens |-> listingOpens,
     stale |-> objectFile, objectFile |-> objectFile, listingFile |-> listingFile,
     status |-> NoStatus]

DriverStarts ==
    {Driver("source", l, r, oo, lo, f, Absent) :
        l \in BOOLEAN, r \in BOOLEAN, oo \in BOOLEAN, lo \in BOOLEAN, f \in {Absent, Stale}}
    \cup {Driver(a, FALSE, TRUE, TRUE, TRUE, Stale, Absent) :
                a \in {"nosource", "badoption", "version"}}

\* the Assembler used as a library, without main
LibraryUse == [Driver("source", FALSE, TRUE, TRUE, TRUE, Absent, Absent) EXCEPT !.mode = "library"]

\* the sources given to the driver: one that assembles cleanly, one with a
\* warning only, one with a Pass-2 error and one with a Pass-1 error
DriverPrograms ==
    {<<Org(NoLabel, Const(16)), Instr(LBL, SEI, "Implied", NoExpr, FALSE)>>,
     <<Instr(LBL, SEI, "Implied", NoExpr, FALSE),
       Data(NoLabel, "Byte", <<Element(NoExpr, Const(511)), Element(Const(2), Const(7))>>)>>,
     <<Instr(NoLabel, LDA, "Address", Sym(FOO), TRUE)>>,
     <<Org(NoLabel, Const(65535)), Instr(NoLabel, LDA, "Address", Sym(FOO), TRUE)>>}

Init ==
    /\ \/ /\ program \in Programs
          /\ driver = LibraryUse
          /\ phase = "pass1"
       \/ /\ program \in DriverPrograms
          /\ driver \in DriverStarts
          /\ phase = "main"
    /\ \E g \in Garbage :
            /\ nodes = [i \in 1..Len(program) |->
                        [loc |-> 0, nextLoc |-> g, operandSize |-> "Byte", computedLoc |-> 0]]
            /\ image = [filled |-> FALSE, cells |-> NewImage(g)]
    /\ symtab = NoCells
    /\ pass1 = NewPass
    /\ pass2 = NewPass
    /\ next = 1
    /\ history = [i \in 1..Len(program) |-> NoHistory]
    /\ previous = NoPrevious

PassOf(F) == [loc |-> F.loc, errors |-> F.errors, warnings |-> F.warnings,
              messages |-> F.messages]

Outcome(F) == IF ~F.thrown THEN "ok" ELSE IF F.thrownWarning THEN "warning" ELSE "error"

(***************************************************************************)
(* Pass1::pass1: one iteration of the loop, running the node's handler     *)
(***************************************************************************)
Pass1Node(Handler(_, _, _)) ==
    /\ LET node == [nodes[next] EXCEPT !.loc = pass1.loc]
           F == Handler(Frame(pass1, symtab, image.cells, node), program[next], next)
           G == Catch(F, next)
       IN  /\ pass1' = PassOf(G)
           /\ symtab' = G.symbols
           /\ nodes' = [nodes EXCEPT ![next] =
                            [node EXCEPT !.operandSize = G.operandSize,
                                         !.computedLoc = G.computedLoc]]
           /\ history' = [history EXCEPT ![next] =
                            [@ EXCEPT !.p1 = Outcome(F), !.er1 = F.er]]
    /\ next' = next + 1
    /\ UNCHANGED <<program, pass2, image, phase, driver, previous>>

Pass1Org ==
    /\ phase = "pass1"
    /\ next <= Len(program)
    /\ program[next].kind = "org"
    /\ Pass1Node(OrgPass1)

Pass1Set ==
    /\ phase = "pass1"
    /\ next <= Len(program)
    /\ program[next].kind = "set"
    /\ Pass1Node(SetPass1)

Pass1Instruction ==
    /\ phase = "pass1"
    /\ next <= Len(program)
    /\ program[next].kind = "instr"
    /\ Pass1Node(InstructionPass1)

Pass1Data ==
    /\ phase = "pass1"
    /\ next <= Len(program)
    /\ program[next].kind = "data"
    /\ Pass1Node(DataPass1)

Pass1Space ==
    /\ phase = "pass1"
    /\ next <= Len(program)
    /\ program[next].kind = "space"
    /\ Pass1Node(SpacePass1)

Pass1Noop ==
    /\ phase = "pass1"
    /\ next <= Len(program)
    /\ program[next].kind = "noop"
    /\ Pass1Node(NoopPass1)

(***************************************************************************)
(* Assembler::assemble after Pass 1: Pass 2 runs only without errors.      *)
(* Pass2::pass2 starts by resetting loc_ and filling the image with -1.    *)
(***************************************************************************)
\* Assembler::assemble had it run Pass 2 whatever Pass 1 recorded
BeginPass2Always ==
    /\ phase = "pass1"
    /\ next > Len(program)
    /\ phase' = "pass2"
    /\ next' = 1
    /\ pass2' = [pass2 EXCEPT !.loc = 0]
    /\ image' = [filled |-> TRUE, cells |-> NoCells]
    /\ UNCHANGED <<program, nodes, symtab, pass1, history, driver, previous>>

BeginPass2 ==
    /\ phase = "pass1"
    /\ next > Len(program)
    /\ pass1.errors = 0
    /\ phase' = "pass2"
    /\ next' = 1
    /\ pass2' = [pass2 EXCEPT !.loc = 0]
    /\ image' = [filled |-> TRUE, cells |-> NoCells]
    /\ UNCHANGED <<program, nodes, symtab, pass1, history, driver, previous>>

SkipPass2 ==
    /\ phase = "pass1"
    /\ next > Len(program)
    /\ pass1.errors # 0
    /\ phase' = "done"
    /\ UNCHANGED <<program, nodes, symtab, pass1, pass2, image, next, history, driver, previous>>

(***************************************************************************)
(* Pass2::pass2: one iteration of the loop, running the node's handler.    *)
(* setNextLoc is skipped when the handler throws.                          *)
(***************************************************************************)
Pass2Node(Handler(_, _)) ==
    /\ LET F == Handler(Frame(pass2, symtab, image.cells, nodes[next]), program[next])
           G == Catch(F, next)
       IN  /\ pass2' = PassOf(G)
           /\ symtab' = G.symbols
           /\ image' = [image EXCEPT !.cells = G.image]
           /\ nodes' = [nodes EXCEPT ![next] =
                            [@ EXCEPT !.operandSize = G.operandSize,
                                      !.nextLoc = IF F.thrown THEN @ ELSE G.loc]]
           /\ history' = [history EXCEPT ![next] =
                            [@ EXCEPT !.p2 = Outcome(F), !.start2 = pass2.loc,
                                      !.end2 = G.loc, !.emitted = F.emitted]]
    /\ next' = next + 1
    /\ UNCHANGED <<program, pass1, phase, driver, previous>>

Pass2Org ==
    /\ phase = "pass2"
    /\ next <= Len(program)
    /\ program[next].kind = "org"
    /\ Pass2Node(OrgPass2)

Pass2Set ==
    /\ phase = "pass2"
    /\ next <= Len(program)
    /\ program[next].kind = "set"
    /\ Pass2Node(SetPass2)

Pass2Instruction ==
    /\ phase = "pass2"
    /\ next <= Len(program)
    /\ program[next].kind = "instr"
    /\ Pass2Node(InstructionPass2)

Pass2Data ==
    /\ phase = "pass2"
    /\ next <= Len(program)
    /\ program[next].kind = "data"
    /\ Pass2Node(DataPass2)

Pass2Space ==
    /\ phase = "pass2"
    /\ next <= Len(program)
    /\ program[next].kind = "space"
    /\ Pass2Node(NodePass2)

Pass2Noop ==
    /\ phase = "pass2"
    /\ next <= Len(program)
    /\ program[next].kind = "noop"
    /\ Pass2Node(NodePass2)

\* a build with assertions enabled stops at a failed assert
Pass2AssertAbort ==
    /\ phase = "pass2"
    /\ next <= Len(program)
    /\ program[next].kind = "instr"
    /\ AssertFails(Frame(pass2, symtab, image.cells, nodes[next]), program[next])
    /\ phase' = "aborted"
    /\ UNCHANGED <<program, nodes, symtab, pass1, pass2, image, next, history, driver, previous>>

EndPass2 ==
    /\ phase = "pass2"
    /\ next > Len(program)
    /\ phase' = "done"
    /\ UNCHANGED <<program, nodes, symtab, pass1, pass2, image, next, history, driver, previous>>

(***************************************************************************)
(* The command-line driver (main.cpp).                                     *)
(***************************************************************************)
\* Assembler::errors / Assembler::warnings: the counts of both passes
errors == pass1.errors + pass2.errors
warnings == pass1.warnings + pass2.warnings

\* std::hex with std::uppercase: the digits of n, most significant first
HexDigit(d) ==
    <<"0", "1", "2", "3", "4", "5", "6", "7", "8", "9", "A", "B", "C", "D", "E", "F">>[d + 1]

RECURSIVE HexDigits(_)
HexDigits(n) ==
    IF n < HexBase THEN <<HexDigit(n)>>
    ELSE Append(HexDigits(n \div HexBase), HexDigit(n % HexBase))

\* std::setw(w) with std::setfill('0'): pad on the left up to w characters
RECURSIVE SetW(_, _)
SetW(w, digits) == IF Len(digits) >= w THEN digits ELSE SetW(w, <<"0">> \o digits)

\* the two tokens of the object format
AddressToken(addr) == <<"@">> \o SetW(AddressWidth, HexDigits(addr))
ByteToken(byte) == SetW(ByteWidth, HexDigits(byte))

\* the addresses of cells in ascending order, from address a on
RECURSIVE Ascending(_)
Ascending(addrs) ==
    IF addrs = {} THEN <<>>
    ELSE LET a == CHOOSE x \in addrs : \A y \in addrs : x <= y
         IN  <<a>> \o Ascending(addrs \ {a})

\* endl: the line being written is complete
EndLine(out) == [out EXCEPT !.lines = Append(@, out.line), !.line = <<>>]

\* the body of the loop of writeObjectFile for a cell that is not -1
WriteCell(out, addr, byte) ==
    LET o1 == IF addr # out.last + 1
                THEN LET o0 == IF out.col # 0 THEN EndLine(out) ELSE out
                     IN  EndLine([o0 EXCEPT !.line = Append(@, AddressToken(addr))])
                ELSE out
        o2 == [o1 EXCEPT !.line = Append(@, ByteToken(byte)), !.col = @ + 1]
        o3 == IF o2.col < LineBytes THEN o2 ELSE EndLine([o2 EXCEPT !.col = 0])
    IN  [o3 EXCEPT !.last = addr]

RECURSIVE WriteCells(_, _, _)
WriteCells(out, cells, addrs) ==
    IF addrs = <<>> THEN out
    ELSE WriteCells(WriteCell(out, Head(addrs), cells[Head(addrs)]), cells, Tail(addrs))

\* writeObjectFile: the lines of the object file of an image, each line the
\* sequence of its tokens
writeObjectFile(cells) ==
    LET out == WriteCells([lines |-> <<>>, line |-> <<>>, last |-> -1, col |-> 0],
                          cells, Ascending(DOMAIN cells))
    IN  IF out.line = <<>> THEN out.lines ELSE Append(out.lines, out.line)

\* unlink
unlinkKeeps(file) == file
unlink(file) == Absent

\* usage: the source argument is missing or an option is unknown
MainUsage ==
    /\ phase = "main"
    /\ driver.args \in {"nosource", "badoption"}
    /\ driver' = [driver EXCEPT !.status = 1]
    /\ phase' = "exited"
    /\ UNCHANGED <<program, nodes, symtab, pass1, pass2, image, next, history, previous>>

\* -v prints the version
MainVersion ==
    /\ phase = "main"
    /\ driver.args = "version"
    /\ driver' = [driver EXCEPT !.status = 0]
    /\ phase' = "exited"
    /\ UNCHANGED <<program, nodes, symtab, pass1, pass2, image, next, history, previous>>

\* readInputBuffer throws; main catches the Error, prints it and runs off its end
MainReadFails ==
    /\ phase = "main"
    /\ driver.args = "source"
    /\ ~driver.readable
    /\ driver' = [driver EXCEPT !.status = 0]
    /\ phase' = "exited"
    /\ UNCHANGED <<program, nodes, symtab, pass1, pass2, image, next, history, previous>>

\* readInputBuffer returns the source and main calls assemble
MainAssemble ==
    /\ phase = "main"
    /\ driver.args = "source"
    /\ driver.readable
    /\ phase' = "pass1"
    /\ UNCHANGED <<program, nodes, symtab, pass1, pass2, image, next, history, driver, previous>>

\* main after assemble has returned: unlink, writeObjectFile when there are
\* no errors, writeListingFile when a listing is asked for, and the status
MainFinish ==
    /\ phase = "done"
    /\ driver.mode = "main"
    /\ LET d1 == [driver EXCEPT !.objectFile = unlink(@)]
           objectThrows == errors = 0 /\ ~driver.objectOpens
           d2 == IF errors = 0 /\ driver.objectOpens
                    THEN [d1 EXCEPT !.objectFile = Written(writeObjectFile(image.cells))]
                    ELSE d1
           listingThrows == ~objectThrows /\ driver.listing /\ ~driver.listingOpens
           d3 == IF ~objectThrows /\ driver.listing /\ driver.listingOpens
                    THEN [d2 EXCEPT !.listingFile = Written(<<>>)]
                    ELSE d2
       IN  driver' = [d3 EXCEPT !.status =
                            IF objectThrows \/ listingThrows THEN 0
                            ELSE IF errors # 0 THEN 1 ELSE 0]
    /\ phase' = "exited"
    /\ UNCHANGED <<program, nodes, symtab, pass1, pass2, image, next, history, previous>>

(***************************************************************************)
(* Assembler::assemble called again on the same instance: program_ and     *)
(* symtab_ are cleared and both passes are constructed anew.  The new      *)
(* Pass2's image_ is not initialized: it holds what its memory held, which *)
(* may be the image of the run before.                                     *)
(***************************************************************************)
AssembleAgain ==
    /\ phase = "done"
    /\ driver.mode = "library"
    /\ program' \in AgainPrograms
    /\ \E g \in Garbage :
            /\ nodes' = [i \in 1..Len(program') |->
                        [loc |-> 0, nextLoc |-> g, operandSize |-> "Byte", computedLoc |-> 0]]
            /\ image' \in {[filled |-> FALSE, cells |-> NewImage(g)],
                            [filled |-> FALSE, cells |-> image.cells]}
    /\ symtab' = NoCells
    /\ pass1' = NewPass
    /\ pass2' = NewPass
    /\ phase' = "pass1"
    /\ next' = 1
    /\ history' = [i \in 1..Len(program') |-> NoHistory]
    /\ previous' = NoPrevious
    /\ UNCHANGED driver

\* assemble called again with the same source, its SET statements rearranged
AssembleRearranged ==
    /\ phase = "done"
    /\ driver.mode = "library"
    /\ previous = NoPrevious
    /\ program' \in Rearranged(program)
    /\ previous' = [program |-> program, image |-> image]
    /\ \E g \in Garbage :
            /\ nodes' = [i \in 1..Len(program') |->
                        [loc |-> 0, nextLoc |-> g, operandSize |-> "Byte", computedLoc |-> 0]]
            /\ image' \in {[filled |-> FALSE, cells |-> NewImage(g)],
                            [filled |-> FALSE, cells |-> image.cells]}
    /\ symtab' = NoCells
    /\ pass1' = NewPass
    /\ pass2' = NewPass
    /\ phase' = "pass1"
    /\ next' = 1
    /\ history' = [i \in 1..Len(program') |-> NoHistory]
    /\ UNCHANGED driver

Next ==
    \/ Pass1Org \/ Pass1Set \/ Pass1Instruction \/ Pass1Data \/ Pass1Space \/ Pass1Noop
    \/ BeginPass2 \/ SkipPass2
    \/ Pass2Org \/ Pass2Set \/ Pass2Instruction \/ Pass2Data \/ Pass2Space \/ Pass2Noop
    \/ Pass2AssertAbort \/ EndPass2
    \/ AssembleAgain \/ AssembleRearranged
    \/ MainUsage \/ MainVersion \/ MainReadFails \/ MainAssemble \/ MainFinish

Spec == Init /\ [][Next]_vars

(***************************************************************************)
(* Properties                                                              *)
(***************************************************************************)
Stmts == 1..Len(program)

\* both passes have run to the end of the statement list
Assembled == phase = "done" /\ image.filled

\* C1: in a run in which neither pass records an error (warnings allowed),
\* Pass 2 begins every statement at the loc Pass 1 assigned to it, and so
\* consumes for every statement the bytes Pass 1 reserved, up to the final
\* location counter.
C1_Pass2FollowsPass1 ==
    (Assembled /\ pass1.errors = 0 /\ pass2.errors = 0) =>
        /\ \A i \in Stmts : history[i].start2 = nodes[i].loc
        /\ pass2.loc = pass1.loc

\* the statement Pass 2 is about to handle
AtPass2Stmt == phase = "pass2" /\ next <= Len(program)

IndexedModes == {"AddressX", "AddressY"}
AddressModes == {"Address"} \cup IndexedModes

\* a non-branch instruction with an Address, AddressX or AddressY operand
NonBranchAddress(stmt) ==
    /\ stmt.kind = "instr"
    /\ stmt.mode \in AddressModes
    /\ KnownOpcode(stmt.opcode)
    /\ ~hasEncoding(findInstruction(stmt.opcode), "relative")

\* C2: when Pass 2 reaches a non-branch instruction with an Address,
\* AddressX or AddressY operand that Pass 1 sized Byte, the value the operand
\* evaluates to in Pass 2 lies in [0, 0xFF].
C2_ByteOperandFits ==
    (AtPass2Stmt /\ NonBranchAddress(program[next])
                 /\ nodes[next].operandSize = "Byte") =>
        LET er == eval(program[next].expr, symtab, pass2.loc)
        IN  (~er.err /\ Defined(er)) => (er.val >= 0 /\ er.val <= ByteMax)

\* the step of Pass 1 (Pass 2) over the statement at next
Pass1Step == phase = "pass1" /\ next <= Len(program) /\ next' = next + 1
Pass2Step == AtPass2Stmt /\ next' = next + 1

\* the sizing rule over one step of Pass 1
C3_SizingStep ==
    (Pass1Step /\ NonBranchAddress(program[next]) /\ history'[next].p1 = "ok") =>
        LET stmt == program[next]
            instr == findInstruction(stmt.opcode)
            er == eval(stmt.expr, symtab', pass1.loc)
            fits == /\ hasEncoding(instr, ZeroPageModeOf(stmt.mode))
                    /\ ~er.err
                    /\ er.undef = {}
                    /\ er.val >= 0
                    /\ er.val <= 255
        IN  /\ nodes'[next].operandSize = IF fits THEN "Byte" ELSE "Word"
            /\ pass1'.loc = pass1.loc + (IF fits THEN 2 ELSE 3)
            /\ nodes'[next].loc = pass1.loc

FailsWith(text) ==
    /\ history'[next].p2 = "error"
    /\ pass2'.errors = pass2.errors + 1
    /\ Len(pass2'.messages) = Len(pass2.messages) + 1
    /\ LET m == pass2'.messages[Len(pass2'.messages)]
       IN  m.text = text /\ ~m.warning /\ m.line = next

\* the Pass 2 step over the statement at next emits exactly these bytes,
\* without a diagnostic
Emits(bytes) ==
    /\ history'[next].p2 = "ok"
    /\ history'[next].emitted = bytes
    /\ pass2'.loc = pass2.loc + Len(bytes)
    /\ pass2'.messages = pass2.messages

\* the operand of the statement at next as Pass 2 evaluates it
Operand2 == eval(program[next].expr, symtab, pass2.loc)
Evaluates(er) == ~er.err /\ er.undef = {}

\* the emission rule over one step of Pass 2
C4_ForwardStep ==
    LET stmt == program[next]
        instr == findInstruction(stmt.opcode)
        v == Operand2.val
    IN  (/\ Pass2Step
         /\ NonBranchAddress(stmt)
         /\ stmt.mode = "Address"
         /\ hasEncoding(instr, "zeroPage")
         /\ hasEncoding(instr, "absolute")
         /\ history[next].er1.undef # {}
         /\ Evaluates(Operand2)) =>
            Emits(<<instr.absolute, v % 256, (v \div 256) % 256>>)

\* C4: a non-branch instruction with an Address operand, on a mnemonic with
\* both the ZeroPage and the Absolute encoding, whose operand referred to a
\* symbol still undefined when Pass 1 reached it, is emitted by Pass 2 as the
\* absolute opcode, low byte, high byte: exactly 3 bytes, whatever the final
\* value of the symbol.
C4_ForwardReferenceAbsolute == [][C4_ForwardStep]_vars

\* away from the top of memory a forward reference to a zero page value has
\* been emitted in the absolute encoding: AD 10 00
C4_Witness ==
    \E i \in Stmts :
        /\ NonBranchAddress(program[i])
        /\ program[i].mode = "Address"
        /\ history[i].er1.undef # {}
        /\ history[i].p2 = "ok"
        /\ history[i].emitted = <<173, 16, 0>>

\* the emission rule over one step of Pass 2
C5_BranchStep ==
    LET stmt == program[next]
        instr == findInstruction(stmt.opcode)
        delta == Operand2.val - (pass2.loc + 2)
    IN  (/\ Pass2Step
         /\ stmt.kind = "instr"
         /\ stmt.mode = "Address"
         /\ hasEncoding(instr, "relative")
         /\ Evaluates(Operand2)) =>
            IF delta >= -128 /\ delta <= 127
                THEN Emits(<<instr.relative, delta % 256>>)
                ELSE /\ FailsWith("Relative branch is out of range.")
                     /\ history'[next].emitted = <<>>

\* C5: for an Address operand on a mnemonic with a Relative encoding, Pass 2
\* takes delta = value - (loc + 2), loc being the address of the branch; with
\* delta in [-128, 127] it emits exactly the Relative opcode and delta & 0xFF,
\* and otherwise the statement fails with the error "Relative branch is out
\* of range."
C5_RelativeBranch == [][C5_BranchStep]_vars

\* away from the top of memory a backward branch has been emitted with its
\* delta in two's complement: D0 FD
C5_Witness ==
    \E i \in Stmts :
        /\ program[i].kind = "instr"
        /\ program[i].mode = "Address"
        /\ hasEncoding(findInstruction(program[i].opcode), "relative")
        /\ history[i].p2 = "ok"
        /\ history[i].emitted = <<208, 253>>

IndirectEncodingOf(mode) == IF mode = "IndirectX" THEN "indirectX" ELSE "indirectY"

\* the emission rule over one step of Pass 2
C6_IndirectStep ==
    LET stmt == program[next]
        instr == findInstruction(stmt.opcode)
        v == Operand2.val
    IN  (/\ Pass2Step
         /\ stmt.kind = "instr"
         /\ stmt.mode \in {"IndirectX", "IndirectY"}
         /\ hasEncoding(instr, IndirectEncodingOf(stmt.mode))
         /\ Evaluates(Operand2)) =>
            IF v >= 0 /\ v <= 255
                THEN Emits(<<instr[IndirectEncodingOf(stmt.mode)], v>>)
                ELSE FailsWith("Address is not in zero page.")

\* C6: for an IndirectX (IndirectY) operand on a mnemonic with that encoding,
\* Pass 2 emits exactly the mnemonic's IndirectX (IndirectY) opcode and the
\* low byte of a value in [0, 0xFF]; a value outside [0, 0xFF] fails the
\* statement with "Address is not in zero page."
C6_IndirectIndexed == [][C6_IndirectStep]_vars

\* the emission rule over one step of Pass 2
C7_IndexedStep ==
    LET stmt == program[next]
        instr == findInstruction(stmt.opcode)
        isX == stmt.mode = "AddressX"
        abs == IF isX THEN instr.absoluteX ELSE instr.absoluteY
        zp == IF isX THEN instr.zeroPageX ELSE instr.zeroPageY
        v == Operand2.val
    IN  (/\ Pass2Step
         /\ stmt.kind = "instr"
         /\ stmt.mode \in IndexedModes
         /\ nodes[next].operandSize = "Word"
         /\ Evaluates(Operand2)) =>
            IF abs # NoEncoding
                THEN Emits(<<abs, v % 256, (v \div 256) % 256>>)
            ELSE IF zp # NoEncoding /\ v >= -127 /\ v <= 255
                THEN Emits(<<zp, v % 256>>)
            ELSE /\ history'[next].p2 = "error"
                 /\ history'[next].emitted = <<>>

\* C7: for an AddressX (AddressY) operand that Pass 1 sized Word, Pass 2
\* emits the AbsoluteX (AbsoluteY) opcode, low byte, high byte when the
\* mnemonic has that encoding; failing that, the ZeroPageX (ZeroPageY) opcode
\* and the low byte when the mnemonic has that encoding and the value is in
\* [-127, 255]; in every remaining case the statement fails with an error.
\* The first byte emitted is always the opcode of the encoding selected.
C7_IndexedWord == [][C7_IndexedStep]_vars

\* C8: after a Pass 1 without an error diagnostic, the label of every
\* labelled statement, of whatever kind, is a defined symbol whose value is
\* the loc of the statement.
C8_LabelsDefined ==
    (phase = "pass1" /\ next > Len(program) /\ pass1.errors = 0) =>
        \A i \in Stmts :
            program[i].label # NoLabel =>
                /\ lookup(symtab, program[i].label).defined
                /\ lookup(symtab, program[i].label).value = nodes[i].loc

\* C9: after Pass 2 every statement, of whatever kind and whether or not it
\* raised a warning or an error, has as next_loc the Pass 2 location counter
\* from just after it was processed, with loc <= next_loc <= 0x10000 and
\* loc in [0, 0xFFFF].
C9_NextLocRange ==
    Assembled =>
        \A i \in Stmts :
            /\ nodes[i].nextLoc = history[i].end2
            /\ nodes[i].loc <= nodes[i].nextLoc
            /\ nodes[i].nextLoc <= 65536
            /\ nodes[i].loc >= 0
            /\ nodes[i].loc <= 65535

\* C10: when Pass 2 stands before an instruction or a data statement, emit
\* succeeds if the location counter is in [0, 0xFFFF], storing byte & 0xFF
\* at image[loc] and adding 1 to loc, and fails only if the write would fall
\* outside 0x0000..0xFFFF; so a byte can be placed at 0xFFFF, leaving the
\* location counter at 0x10000.
C10_EmitInRange ==
    (AtPass2Stmt /\ program[next].kind \in {"instr", "data"}) =>
        LET F == Frame(pass2, symtab, image.cells, nodes[next])
            G == emit(F, 511)
            inRange == pass2.loc >= 0 /\ pass2.loc <= 65535
        IN  /\ inRange => /\ ~G.thrown
                          /\ G.loc = pass2.loc + 1
                          /\ G.image[pass2.loc] = 255
            /\ G.thrown => ~inRange

\* the last diagnostic of a pass
LastMessage(pass) == pass.messages[Len(pass.messages)]

\* a SET without a label whose expression Pass 1 evaluates fully: the step
\* is the one setValue(symbol, value) call
C11_SetStep ==
    LET stmt == program[next]
        er == eval(stmt.expr, symtab, pass1.loc)
        old == lookup(symtab, stmt.symbol)
    IN  (/\ Pass1Step
         /\ stmt.kind = "set"
         /\ stmt.label = NoLabel
         /\ Evaluates(er)) =>
            IF old.defined /\ old.value # er.val
                THEN /\ symtab' = symtab
                     /\ history'[next].p1 = "error"
                     /\ pass1'.errors = pass1.errors + 1
                     /\ LastMessage(pass1').text = "Cannot redefine symbol."
                ELSE /\ history'[next].p1 = "ok"
                     /\ lookup(symtab', stmt.symbol) = [defined |-> TRUE, value |-> er.val]
                     /\ old.defined => symtab' = symtab
                     /\ \A n \in DOMAIN symtab :
                            n # toUpper(stmt.symbol) => symtab'[n] = symtab[n]
                     /\ pass1'.messages = pass1.messages

\* no step of either pass changes a defined symbol
C11_DefinedStays ==
    (Pass1Step \/ Pass2Step) =>
        \A n \in DOMAIN symtab :
            symtab[n].defined => (n \in DOMAIN symtab' /\ symtab'[n] = symtab[n])

\* C11: setValue defines an absent or undefined symbol with the value, changes
\* nothing when the symbol already has that value, and fails with "Cannot
\* redefine symbol" leaving the table as it was when the symbol has another
\* value; so, across both passes of a run, the value of a defined symbol
\* never changes.
C11_SetValue == [][C11_SetStep /\ C11_DefinedStays]_vars

\* a SET has been refused because its symbol holds another value, which the
\* table still holds
C11_Witness ==
    \E i \in Stmts :
        /\ program[i].kind = "set"
        /\ program[i].label = NoLabel
        /\ program[i].expr = Const(4660)
        /\ history[i].p1 = "error"
        /\ lookup(symtab, program[i].symbol) = [defined |-> TRUE, value |-> 16]

\* names in several casings, and the pairs of them that differ in case only
Foo == <<"F", "o", "o">>
buf == <<"b", "u", "f">>
CasedNames == {FOO, foo, Foo, BUF, buf, LBL}
CasePairs ==
    {<<FOO, foo>>, <<foo, FOO>>, <<FOO, Foo>>, <<Foo, FOO>>, <<foo, Foo>>, <<Foo, foo>>,
     <<BUF, buf>>, <<buf, BUF>>}
SameButCase(a, b) == a = b \/ <<a, b>> \in CasePairs

\* the names the run has passed to setValue so far: the labels of the
\* statements Pass 1 has handled (a Space never defines its label) and the
\* symbols of the SETs either pass has handled
NamesSet ==
    {program[i].label : i \in {j \in Stmts : /\ history[j].p1 # "none"
                                             /\ program[j].kind # "space"
                                             /\ program[j].label # NoLabel}}
    \cup {program[i].symbol : i \in {j \in Stmts : /\ history[j].p1 # "none"
                                                  /\ program[j].kind = "set"}}

\* C12: symbol names are case-insensitive: on the table of any point of a
\* run, setValue on one name followed by lookup of a name differing only in
\* case returns defined = true with the value set, and setValue on that second
\* name with another value fails with "Cannot redefine symbol"; lookup of a
\* name never set in any casing returns (defined = false, value = 1).
C12_CaseInsensitive ==
    /\ \A pair \in {<<FOO, foo>>, <<foo, Foo>>, <<Foo, FOO>>, <<buf, BUF>>} :
            LET v == 16
                r == setValue(symtab, pair[1], v)
                again == setValue(r.symbols, pair[2], v + 1)
            IN  IF r.err
                    THEN /\ lookup(symtab, pair[2]).defined
                         /\ lookup(symtab, pair[2]).value # v
                    ELSE /\ lookup(r.symbols, pair[2]) = [defined |-> TRUE, value |-> v]
                         /\ again.err
                         /\ again.symbols = r.symbols
    /\ \A a \in CasedNames :
            (\A b \in NamesSet : ~SameButCase(a, b)) =>
                lookup(symtab, a) = [defined |-> FALSE, value |-> 1]

\* FOO was set by a SET and an operand written foo was then found defined
\* with that value and sized Byte
C12_Witness ==
    \E i \in Stmts : \E j \in Stmts :
        /\ i < j
        /\ program[i] = SetStmt(NoLabel, FOO, Const(16))
        /\ program[j].kind = "instr"
        /\ program[j].expr = Sym(foo)
        /\ history[j].p1 = "ok"
        /\ history[j].er1 = ExprValue(16)
        /\ nodes[j].operandSize = "Byte"

\* pass (its messages) holds a diagnostic of the statement at line i with
\* the severity of the outcome
Recorded(pass, i, outcome) ==
    \E k \in 1..Len(pass.messages) :
        /\ pass.messages[k].line = i
        /\ pass.messages[k].warning = (outcome = "warning")

\* C13: in both passes a statement that fails leaves a diagnostic carrying
\* its line and the pass goes on with every later statement in source order:
\* Pass 1 has handled exactly the statements before next, and once it is over
\* all of them; likewise Pass 2, if it has begun, whenever the run has come to
\* its end.
C13_FailuresRecorded ==
    /\ \A i \in Stmts :
            /\ history[i].p1 \in {"error", "warning"} => Recorded(pass1, i, history[i].p1)
            /\ history[i].p2 \in {"error", "warning"} => Recorded(pass2, i, history[i].p2)
    /\ phase = "pass1" => \A i \in Stmts : (history[i].p1 # "none") = (i < next)
    /\ phase \in {"pass2", "done", "aborted"} => \A i \in Stmts : history[i].p1 # "none"
    /\ phase = "pass2" => \A i \in Stmts : (history[i].p2 # "none") = (i < next)
    /\ (phase \in {"done", "aborted"} /\ image.filled) =>
            \A i \in Stmts : history[i].p2 # "none"

-----------------------------------------------------------------------------
\* Assembler::messages, which the driver prints once assemble has returned.

\* the messages of ms that carry line l, in the order they have in ms
LineGroup(ms, l) == SelectSeq(ms, LAMBDA m : m.line = l)

LinesOf(ms) == {ms[k].line : k \in DOMAIN ms}

MinLine(lines) == CHOOSE l \in lines : \A o \in lines : l <= o

\* every rearrangement of the sequence s
Rearrangements(s) ==
    {[k \in 1..Len(s) |-> s[p[k]]] : p \in Permutations(1..Len(s))}

\* std::sort with the comparator left.line() < right.line(): the result is
\* ordered by line, and the order of messages with equal lines is unspecified
RECURSIVE sortByLine(_, _)
sortByLine(ms, lines) ==
    IF lines = {} THEN {<<>>}
    ELSE LET l == MinLine(lines)
         IN {a \o b : a \in Rearrangements(LineGroup(ms, l)),
                      b \in sortByLine(ms, lines \ {l})}

\* Assembler::messages: the Pass-1 messages, then the Pass-2 messages, sorted;
\* the set of the vectors the call can return
messages ==
    LET ret == pass1.messages \o pass2.messages
    IN sortByLine(ret, LinesOf(ret))

\* what a stable sort by line makes of ms
RECURSIVE StableByLine(_, _)
StableByLine(ms, lines) ==
    IF lines = {} THEN <<>>
    ELSE LET l == MinLine(lines)
         IN LineGroup(ms, l) \o StableByLine(ms, lines \ {l})

\* C14: once assemble has returned, messages() returns the Pass-1 diagnostics
\* followed by the Pass-2 diagnostics re-sorted stably by line: diagnostics of
\* one line keep their order (Pass 1 before Pass 2, and within a pass the
\* order in which they were recorded).
C14_MessagesStable ==
    phase = "done" =>
        LET ret == pass1.messages \o pass2.messages
        IN \A m \in messages : m = StableByLine(ret, LinesOf(ret))

-----------------------------------------------------------------------------
\* n copies of the byte b
Repeated(b, n) == [k \in 1..n |-> b]

\* the bytes a BYTE statement stands for: the low byte of every element, a
\* REP element as many times as its count, in order
RECURSIVE ByteImage(_, _, _)
ByteImage(data, i, loc) ==
    IF i > Len(data) THEN <<>>
    ELSE LET v == eval(data[i].value, symtab, loc).val
             n == IF data[i].count = NoExpr THEN 1
                  ELSE eval(data[i].count, symtab, loc).val
         IN  Repeated(LowByte(v), n) \o ByteImage(data, i + 1, loc)

\* every value and count of the elements evaluates in Pass 2
DataEvaluates(data) ==
    \A k \in DOMAIN data :
        /\ Evaluates(eval(data[k].value, symtab, pass2.loc))
        /\ data[k].count # NoExpr =>
                LET c == eval(data[k].count, symtab, pass2.loc)
                IN  Evaluates(c) /\ c.val >= 1

OutOfByte(v) == v < -128 \/ v > ByteMax

\* the statement at next is an immediate instruction or a BYTE statement
\* with a value outside -128..255
OversizedByteStmt ==
    LET stmt == program[next]
    IN  \/ /\ stmt.kind = "instr" /\ stmt.mode = "Immediate"
           /\ findInstruction(stmt.opcode).immediate # NoEncoding
           /\ Evaluates(Operand2) /\ OutOfByte(Operand2.val)
        \/ /\ stmt.kind = "data" /\ stmt.size = "Byte"
           /\ DataEvaluates(stmt.data)
           /\ \E k \in DOMAIN stmt.data :
                    OutOfByte(eval(stmt.data[k].value, symtab, pass2.loc).val)

\* the bytes that statement stands for
OversizedBytes ==
    LET stmt == program[next]
    IN  IF stmt.kind = "instr"
            THEN <<findInstruction(stmt.opcode).immediate, LowByte(Operand2.val)>>
            ELSE ByteImage(stmt.data, 1, pass2.loc)

C15_WarningStep ==
    (Pass2Step /\ OversizedByteStmt /\ pass2.loc >= 0
               /\ pass2.loc + Len(OversizedBytes) < MemTop) =>
        /\ history'[next].p2 = "warning"
        /\ pass2'.errors = pass2.errors
        /\ pass2'.warnings > pass2.warnings
        /\ history'[next].emitted = OversizedBytes
        /\ pass2'.loc = pass2.loc + Len(OversizedBytes)

\* C15: a value outside -128..255 in an immediate operand or in an element of
\* a BYTE statement gives a warning and no error, and the statement still
\* emits all of its bytes (the opcode and the low byte of the operand; the low
\* byte of every element in order) and moves the location counter on by its
\* full length.
C15_OversizedByteWarns == [][C15_WarningStep]_vars

-----------------------------------------------------------------------------
\* Node::length, with the overrides of OrgNode and SetNode, of statement i
length(i) ==
    IF program[i].kind \in {"org", "set"} THEN 0
    ELSE nodes[i].nextLoc - nodes[i].loc

\* the lengths of the Instruction, Data and Space statements from i on
RECURSIVE TotalLength(_)
TotalLength(i) ==
    IF i > Len(program) THEN 0
    ELSE (IF program[i].kind \in {"instr", "data", "space"} THEN length(i) ELSE 0)
            + TotalLength(i + 1)

\* the cells the Space statements from i on reserve: element size times count
RECURSIVE ReservedCells(_)
ReservedCells(i) ==
    IF i > Len(program) THEN 0
    ELSE (IF program[i].kind = "space"
            THEN DataSizeBytes(program[i].size)
                    * eval(program[i].expr, symtab, nodes[i].loc).val
            ELSE 0)
            + ReservedCells(i + 1)

\* the cells of the image that hold a byte
WrittenCells == Cardinality(DOMAIN image.cells)

\* C16: for a source assembled without errors, the lengths of its
\* Instruction, Data and Space statements (next_loc - loc; Org and Set count
\* 0) add up to the number of image cells that are not -1 plus the cells
\* reserved by Space statements.
C16_LengthsMatchImage ==
    (Assembled /\ errors = 0) => TotalLength(1) = WrittenCells + ReservedCells(1)

-----------------------------------------------------------------------------
\* the cells Pass 2 of the present run has written
WrittenByRun ==
    UNION {history[i].start2 .. (history[i].start2 + Len(history[i].emitted) - 1) :
                i \in Stmts}

\* the names the source of the present run gives a value: labels and the
\* symbols of its SET statements
NamesOfRun ==
    {toUpper(program[i].label) : i \in {j \in Stmts : program[j].label # NoLabel}}
        \cup {toUpper(program[i].symbol) : i \in {j \in Stmts : program[j].kind = "set"}}

\* C17: every assemble run starts from an empty statement list, an empty
\* symbol table and an image of -1, so that after any run (one in which
\* Pass 1 reported errors and a second run on the same instance included)
\* every image cell is -1 or was written by that run and every symbol of the
\* table was defined by that run.
C17_RunStartsClean ==
    phase = "done" =>
        /\ DOMAIN image.cells \subseteq WrittenByRun
        /\ DOMAIN symtab \subseteq NamesOfRun

\* the symbol table half of that
SymtabOfRun == phase = "done" => DOMAIN symtab \subseteq NamesOfRun

-----------------------------------------------------------------------------
\* an output file the driver had to open could not be opened for writing
OutputOpenFails ==
    \/ errors = 0 /\ ~driver.objectOpens
    \/ driver.listing /\ ~driver.listingOpens

\* one of the failures of the driver has occurred
DriverFailure ==
    \/ driver.args = "nosource"
    \/ /\ driver.args = "source"
       /\ (~driver.readable \/ OutputOpenFails \/ errors >= 1)

\* C18: the driver exits with status 1 whenever the source-file argument is
\* missing, the source file cannot be opened or fully read, an output file
\* cannot be opened for writing, or the run produced an error diagnostic, and
\* with 0 when it was given a source and none of these occurred (warnings
\* alone give 0).
C18_ExitStatus ==
    phase = "exited" =>
        /\ DriverFailure => driver.status = 1
        /\ (driver.args = "source" /\ ~DriverFailure) => driver.status = 0

\* the parts of C18 that do not involve a file that cannot be opened or read
ExitStatusOfDiagnostics ==
    (phase = "exited" /\ driver.args = "source" /\ driver.readable /\ ~OutputOpenFails) =>
        driver.status = (IF errors >= 1 THEN 1 ELSE 0)

-----------------------------------------------------------------------------
\* the driver has assembled a source and has come to its end
DriverAssembled == phase = "exited" /\ driver.args = "source" /\ driver.readable

\* C19: after the driver has assembled a source, the object path holds an
\* object file exactly when the error count of the two passes is 0 (given
\* that the file can be opened for writing): warnings do not suppress it, any
\* error does, a stale file at the path is removed in every case, and a
\* requested listing is written with and without errors.
C19_ObjectFileGated ==
    DriverAssembled =>
        /\ driver.objectFile.state # "stale"
        /\ driver.objectFile.state = "written" => errors = 0
        /\ (errors = 0 /\ driver.objectOpens) =>
                driver.objectFile = Written(writeObjectFile(image.cells))
        /\ (driver.listing /\ driver.listingOpens /\ (errors # 0 \/ driver.objectOpens)) =>
                driver.listingFile.state = "written"

\* a run with an error, a stale object file and a listing asked for
C19_Witness ==
    /\ DriverAssembled
    /\ errors >= 1
    /\ driver.stale = Stale
    /\ driver.objectFile = Absent
    /\ driver.listing
    /\ driver.listingFile.state = "written"

\* a run with a warning and no error leaves an object file
C19_WarningWitness ==
    /\ DriverAssembled
    /\ errors = 0 /\ warnings >= 1
    /\ driver.objectFile.state = "written"

-----------------------------------------------------------------------------
\* reading the object format back
DigitValue(c) == CHOOSE d \in 0..(HexBase - 1) : HexDigit(d) = c

RECURSIVE ParseHex(_)
ParseHex(digits) ==
    IF digits = <<>> THEN 0
    ELSE ParseHex(SubSeq(digits, 1, Len(digits) - 1)) * HexBase
            + DigitValue(digits[Len(digits)])

IsAddressToken(t) == Head(t) = "@"

\* the tokens of the lines, in order
RECURSIVE TokensOf(_)
TokensOf(lines) == IF lines = <<>> THEN <<>> ELSE Head(lines) \o TokensOf(Tail(lines))

\* replaying tokens onto a buffer: a byte token is stored at the
\* address of the latest @XXXX token plus the byte tokens since; a byte
\* token before any @XXXX token has no address
RECURSIVE Replay(_, _, _, _)
Replay(tokens, known, addr, buffer) ==
    IF tokens = <<>> THEN [ok |-> TRUE, cells |-> buffer]
    ELSE LET t == Head(tokens)
         IN  IF IsAddressToken(t) THEN Replay(Tail(tokens), TRUE, ParseHex(Tail(t)), buffer)
             ELSE IF ~known THEN [ok |-> FALSE, cells |-> buffer]
             ELSE Replay(Tail(tokens), TRUE, addr + 1, (addr :> ParseHex(t)) @@ buffer)

\* the first addresses of the maximal runs of defined cells
RunStarts(cells) == {a \in DOMAIN cells : (a - 1) \notin DOMAIN cells}

\* the addresses the @XXXX tokens of the lines carry
AddressesIn(lines) ==
    LET ts == TokensOf(lines)
    IN  {ParseHex(Tail(ts[k])) : k \in {j \in DOMAIN ts : IsAddressToken(ts[j])}}

ByteTokensIn(line) == Len(SelectSeq(line, LAMBDA t : ~IsAddressToken(t)))

\* C20: replaying the tokens of the object file written for an image onto a
\* buffer of -1 gives the image back, cell for cell; every maximal run of
\* defined cells is introduced by an @XXXX token with the run's first address,
\* and no line holds more than 16 byte tokens.
C20_ObjectFileReplays ==
    Assembled =>
        LET lines == writeObjectFile(image.cells)
            r == Replay(TokensOf(lines), FALSE, 0, NoCells)
        IN  /\ r.ok
            /\ r.cells = image.cells
            /\ RunStarts(image.cells) \subseteq AddressesIn(lines)
            /\ \A k \in DOMAIN lines : ByteTokensIn(lines[k]) <= LineBytes

\* the same for the images that have no byte at address 0
ReplaysAwayFromZero ==
    (Assembled /\ 0 \notin DOMAIN image.cells) =>
        LET lines == writeObjectFile(image.cells)
            r == Replay(TokensOf(lines), FALSE, 0, NoCells)
        IN  /\ r.ok
            /\ r.cells = image.cells
            /\ RunStarts(image.cells) \subseteq AddressesIn(lines)
            /\ \A k \in DOMAIN lines : ByteTokensIn(lines[k]) <= LineBytes

-----------------------------------------------------------------------------
\* the symbols an expression refers to, upper-cased
RECURSIVE SymbolsOf(_)
SymbolsOf(e) ==
    CASE e.k = "sym" -> {toUpper(e.s)}
      [] e.k = "neg" -> SymbolsOf(e.e)
      [] e.k = "bin" -> SymbolsOf(e.l) \cup SymbolsOf(e.r)
      [] OTHER -> {}

\* no SET expression of the program refers to a symbol another SET defines
IndependentSets(prog) ==
    \A i \in SetPositions(prog) : \A j \in SetPositions(prog) \ {i} :
        toUpper(prog[j].symbol) \notin SymbolsOf(prog[i].expr)

\* the program has been assembled, and before it the same program with its
\* SET statements in other positions; both runs came to the end of Pass 2
BothAssembled ==
    /\ Assembled
    /\ previous # NoPrevious
    /\ previous.image.filled

ExprsOf(stmt) ==
    CASE stmt.kind \in {"org", "set", "space"} -> {stmt.expr}
      [] stmt.kind = "instr" -> {stmt.expr}
      [] stmt.kind = "data" ->
            {stmt.data[k].value : k \in DOMAIN stmt.data}
                \cup {stmt.data[k].count : k \in DOMAIN stmt.data}
      [] OTHER -> {}

StmtSymbols(stmt) == UNION {SymbolsOf(e) : e \in ExprsOf(stmt)}

RECURSIVE UsesHere(_)
UsesHere(e) ==
    CASE e.k = "loc" -> TRUE
      [] e.k = "neg" -> UsesHere(e.e)
      [] e.k = "bin" -> UsesHere(e.l) \/ UsesHere(e.r)
      [] OTHER -> FALSE

\* the SET statements of the program are plain: no label, and an expression
\* of constants only
PlainSets(prog) ==
    \A i \in SetPositions(prog) :
        /\ prog[i].label = NoLabel
        /\ SymbolsOf(prog[i].expr) = {}
        /\ ~UsesHere(prog[i].expr)

\* a statement between the first and the last SET statement refers to a
\* symbol that a SET defines
UseAmongSets(prog) ==
    \E i \in DOMAIN prog \ SetPositions(prog) :
        /\ \E a \in SetPositions(prog) : a < i
        /\ \E b \in SetPositions(prog) : i < b
        /\ \E j \in SetPositions(prog) : toUpper(prog[j].symbol) \in StmtSymbols(prog[i])

-----------------------------------------------------------------------------
\* the cells the Space statement at next reserves, its count evaluated at loc
SpaceCells(loc) ==
    DataSizeBytes(program[next].size) * eval(program[next].expr, symtab, loc).val

C22_SpaceStep1 ==
    (/\ Pass1Step
     /\ program[next].kind = "space"
     /\ Evaluates(eval(program[next].expr, symtab, pass1.loc))
     /\ SpaceCells(pass1.loc) >= 0
     /\ pass1.loc + SpaceCells(pass1.loc) <= MemTop + 1) =>
        pass1'.loc = pass1.loc + SpaceCells(pass1.loc)

C22_SpaceStep2 ==
    (/\ Pass2Step
     /\ program[next].kind = "space"
     /\ Evaluates(eval(program[next].expr, symtab, pass2.loc))
     /\ SpaceCells(pass2.loc) >= 0
     /\ pass2.loc + SpaceCells(pass2.loc) <= MemTop + 1) =>
        /\ pass2'.loc = pass2.loc + SpaceCells(pass2.loc)
        /\ image' = image

\* the Pass-1 half of C22 and the no-write part of the Pass-2 half
SpaceReservesInPass1 ==
    [][C22_SpaceStep1 /\ ((Pass2Step /\ program[next].kind = "space") => image' = image)]_vars

\* C22: a Space statement with a defined count advances the location counter
\* by count times the element size (1 for Byte, 2 for Word) in Pass 1 and by
\* the same amount in Pass 2, where it writes no image cell.
C22_SpaceAdvances == [][C22_SpaceStep1 /\ C22_SpaceStep2]_vars

-----------------------------------------------------------------------------
\* the symbols of e that the table does not hold as defined
UndefinedIn(e, symbols) == {n \in SymbolsOf(e) : ~lookup(symbols, n).defined}

\* C23: evaluating an expression that refers to an undefined symbol never
\* fails with "Divide by zero": whatever defined sub-expressions it has (a
\* division by 0 included, as in X + 1/0), the result is Undefined and
\* carries the names of the undefined symbols.
C23_UndefinedNeverDivides ==
    \A i \in Stmts : \A e \in ExprsOf(program[i]) \ {NoExpr} :
        UndefinedIn(e, symtab) # {} =>
            LET er == eval(e, symtab, pass1.loc)
            IN  /\ ~er.err
                /\ {toUpper(n) : n \in er.undef} = UndefinedIn(e, symtab)

\* the same for expressions in which no division by 0 stands beside the
\* undefined symbol
RECURSIVE DividesByZero(_, _, _)
DividesByZero(e, symbols, loc) ==
    CASE e.k = "neg" -> DividesByZero(e.e, symbols, loc)
      [] e.k = "bin" ->
            \/ DividesByZero(e.l, symbols, loc)
            \/ DividesByZero(e.r, symbols, loc)
            \/ /\ e.op = "/"
               /\ UndefinedIn(e, symbols) = {}
               /\ eval(e.r, symbols, loc) = ExprValue(0)
      [] OTHER -> FALSE

UndefinedIsReported ==
    \A i \in Stmts : \A e \in ExprsOf(program[i]) \ {NoExpr} :
        (UndefinedIn(e, symtab) # {} /\ ~DividesByZero(e, symtab, pass1.loc)) =>
            LET er == eval(e, symtab, pass1.loc)
            IN  /\ ~er.err
                /\ {toUpper(n) : n \in er.undef} = UndefinedIn(e, symtab)

(***************************************************************************)
(* C24: a mnemonic with a ZeroPage encoding has an Absolute encoding.      *)
(***************************************************************************)
\* the test the loop at the end of makeOpcodeMap asserts for one instruction
ZeroPageHasAbsolute(instr) ==
    encodingExists(instr, "ZeroPage") => encodingExists(instr, "Absolute")

\* the same test on an entry of the table Pass 2 reads
OpcodeZeroPageHasAbsolute(opcode) ==
    hasEncoding(opcode, "zeroPage") => hasEncoding(opcode, "absolute")

\* a non-branch Address instruction on a mnemonic with the ZeroPage encoding
\* that Pass 2 has emitted in full
EmittedAddress(i) ==
    /\ NonBranchAddress(program[i])
    /\ program[i].mode = "Address"
    /\ hasEncoding(findInstruction(program[i].opcode), "zeroPage")
    /\ history[i].p2 = "ok"

\* the loop of assertions at the end of makeOpcodeMap passes for every entry
AssertionsPass ==
    \A k \in DOMAIN InstructionMap : ZeroPageHasAbsolute(InstructionMap[k])

\* the same for every entry of the table Pass 2 reads
OpcodeAssertionsPass ==
    \A k \in DOMAIN makeOpcodeMap : OpcodeZeroPageHasAbsolute(makeOpcodeMap[k])

\* C24: every mnemonic of the opcode table that has a ZeroPage encoding has
\* an Absolute encoding too, so the assertion at the end of makeOpcodeMap
\* passes for every entry, and an Address operand that Pass 2 emits in two
\* bytes on such a mnemonic is emitted behind an existing Absolute opcode
\* (and one emitted in one byte behind the ZeroPage opcode).
C24_ZeroPageImpliesAbsolute ==
    /\ AssertionsPass
    /\ OpcodeAssertionsPass
    /\ \A i \in Stmts :
          EmittedAddress(i) =>
              LET instr == findInstruction(program[i].opcode)
                  emitted == history[i].emitted
              IN  \/ Len(emitted) = 2 /\ emitted[1] = instr.zeroPage
                  \/ /\ Len(emitted) = 3
                     /\ instr.absolute # NoEncoding
                     /\ emitted[1] = instr.absolute

\* STX $1234 on a mnemonic with both encodings has fallen back to the
\* two-byte operand behind the Absolute opcode: 8E 34 12
C24_Witness ==
    \E i \in Stmts :
        /\ EmittedAddress(i)
        /\ toUpper(program[i].opcode) = STX
        /\ encodingExists(InstructionMap["STX"], "ZeroPage")
        /\ history[i].emitted = <<142, 52, 18>>

(***************************************************************************)
(* C25: every encoding of the table carries a clock count.                 *)
(***************************************************************************)
\* the <<key, mode>> pairs of the table
EncodingsOf(map) ==
    UNION {{<<k, mode>> : mode \in DOMAIN map[k].encodings} : k \in DOMAIN map}

\* Encoding::clocks of the encoding of a pair
clocksOf(map, p) == map[p[1]].encodings[p[2]].clocks

\* the std::string of a name
RECURSIVE Text(_)
Text(name) == IF name = <<>> THEN "" ELSE name[1] \o Text(Tail(name))

\* Pass::findInstruction on the table of Instruction objects
LooksUp(op) == Text(toUpper(op)) \in DOMAIN InstructionMap
lookupInstruction(op) == InstructionMap[Text(toUpper(op))]

\* the keys of the table the instruction statements of the program look up
LookedUp ==
    {Text(toUpper(program[i].opcode)) :
        i \in {j \in Stmts : program[j].kind = "instr" /\ LooksUp(program[j].opcode)}}

\* C25: every encoding present in the opcode table carries a strictly
\* positive base clock count: no (mnemonic, mode) pair of the table has
\* clocks equal to 0.  Stated of the entries the loaded program looks up:
\* whatever instruction a statement finds in the table, each of its
\* encodings has clocks above 0.
C25_ClocksPositive ==
    \A p \in EncodingsOf(InstructionMap) :
        p[1] \in LookedUp => clocksOf(InstructionMap, p) > 0

(***************************************************************************)
(* C30: every key of the table holds its own instruction.                  *)
(***************************************************************************)
\* the <<key, mode>> pairs of the entries the program looks up
LookedUpEncodings ==
    UNION {{<<k, mode>> : mode \in DOMAIN InstructionMap[k].encodings} : k \in LookedUp}

\* Encoding::opcode of the encoding of a pair
opcodeOf(map, p) == map[p[1]].encodings[p[2]].opcode

\* C30: the instruction stored under each mnemonic key of the opcode table
\* is that mnemonic's own instruction, no two distinct (mnemonic, mode)
\* pairs share an opcode byte, and looking up TAS yields an instruction whose
\* only encoding is AbsoluteY with opcode 0x9B.  Stated of the entries the
\* loaded program looks up.
C30_KeysHoldOwnInstruction ==
    /\ \A k \in LookedUp : InstructionMap[k].mnemonic = k
    /\ \A p, q \in LookedUpEncodings :
          p # q => opcodeOf(InstructionMap, p) # opcodeOf(InstructionMap, q)
    /\ "TAS" \in LookedUp =>
          /\ DOMAIN InstructionMap["TAS"].encodings = {"AbsoluteY"}
          /\ opcodeOf(InstructionMap, <<"TAS", "AbsoluteY">>) = 155

(***************************************************************************)
(* C26: symbols that are given a value somewhere are defined in Pass 2.    *)
(***************************************************************************)
\* the symbols the labels of a source name
LabelsOf(prog) ==
    {toUpper(prog[i].label) : i \in {j \in DOMAIN prog : prog[j].label # NoLabel}}

\* the symbols given a value by a label, or by a SET statement whose
\* expression refers only to symbols given a value with fewer than n SETs
RECURSIVE Resolving(_, _)
Resolving(prog, n) ==
    IF n = 0 THEN LabelsOf(prog)
    ELSE LET r == Resolving(prog, n - 1)
         IN  r \cup {toUpper(prog[i].symbol) :
                        i \in {j \in SetPositions(prog) : SymbolsOf(prog[j].expr) \subseteq r}}

\* every symbol the source refers to is given a value somewhere in it
AllResolve(prog) ==
    UNION {StmtSymbols(prog[i]) : i \in DOMAIN prog} \subseteq Resolving(prog, Len(prog))

\* the undefined-symbol errors of Pass 2
UndefinedErrors ==
    {k \in DOMAIN pass2.messages :
        pass2.messages[k].text = "Symbols are undefined in instruction operand."}

\* C26: when every symbol a source refers to is given a value somewhere in
\* it, by a label or by a SET statement whose expression ultimately resolves
\* (no cyclic dependency), a Pass 2 that has run has recorded no
\* undefined-symbol error, in whatever order the SET statements and the
\* statements that use the symbols appear.
C26_GivenSymbolsResolve ==
    (Assembled /\ AllResolve(program)) => UndefinedErrors = {}

(***************************************************************************)
(* C27: Pass 2 runs exactly when Pass 1 recorded no error.                 *)
(***************************************************************************)
\* a call of Assembler::assemble begins
NewRunStep == phase # "pass1" /\ phase' = "pass1"

\* what Pass 2 leaves behind changes: a diagnostic of Pass 2, an image cell,
\* the next_loc of a statement
Pass2Effect ==
    \/ pass2' # pass2
    \/ image' # image
    \/ \E i \in Stmts : nodes'[i].nextLoc # nodes[i].nextLoc

\* within a run, what Pass 2 leaves behind changes only while Pass 2 runs,
\* after a Pass 1 without errors
C27_Step ==
    (~NewRunStep /\ Pass2Effect) =>
        (pass1.errors = 0 /\ phase \in {"pass1", "pass2"} /\ phase' = "pass2")

\* Pass 2 is running or has run only after a Pass 1 without errors, and at
\* the end of a call Pass 2 has run if Pass 1 recorded no error
C27_State ==
    /\ phase \in {"pass2", "aborted"} => pass1.errors = 0
    /\ phase = "done" => (image.filled <=> pass1.errors = 0)
    /\ (phase = "done" /\ pass1.errors > 0) =>
          /\ pass2 = NewPass
          /\ \A i \in Stmts : history[i].p2 = "none" /\ history[i].emitted = <<>>

\* C27: assemble executes Pass 2 if and only if Pass 1 recorded no error
\* (warnings of Pass 1 do not prevent it); in a run whose Pass 1 recorded an
\* error, Pass 2 records no diagnostic, no image cell is written and no
\* statement's next_loc is set.
C27_Pass2IffNoErrors == [](C27_State) /\ [][C27_Step]_vars

\* a call has ended after a Pass 1 with a warning and no error, and Pass 2
\* has run and emitted
C27_Witness ==
    /\ phase = "done"
    /\ pass1.warnings > 0
    /\ pass1.errors = 0
    /\ image.filled
    /\ \E i \in Stmts : history[i].p2 = "ok" /\ history[i].emitted # <<>>

\* a call has ended after a Pass 1 with an error: Pass 2 was skipped
C27_SkippedWitness ==
    /\ phase = "done"
    /\ pass1.errors > 0
    /\ ~image.filled
    /\ pass2 = NewPass

(***************************************************************************)
(* C28: the location counter and the image writes stay in range.           *)
(***************************************************************************)
\* the values the location counter may take: one past the end of memory is
\* the position of the next byte after the last one
LocRange == 0..(MemTop + 1)

\* the counter of both passes, the span of every statement Pass 2 has
\* handled and the index of every cell written are in range
C28_State ==
    /\ pass1.loc \in LocRange
    /\ pass2.loc \in LocRange
    /\ image.filled => DOMAIN image.cells \subseteq 0..MemTop
    /\ \A i \in Stmts :
          history[i].p2 # "none" =>
              /\ history[i].start2 \in LocRange
              /\ history[i].end2 \in LocRange
              /\ history[i].start2 + Len(history[i].emitted) <= MemTop + 1

\* the location a statement of Pass 1 asks for: the value of an ORG, the
\* end of the space a BYTES or WORDS statement reserves, one byte at least
\* behind the counter for an instruction or a data statement with a plain
\* element
AsksFor(stmt) ==
    LET er == eval(stmt.expr, symtab, pass1.loc)
    IN  CASE stmt.kind = "org" -> er.val
          [] stmt.kind = "space" -> pass1.loc + DataSizeBytes(stmt.size) * er.val
          [] OTHER -> pass1.loc + 1

Moves(stmt) ==
    \/ /\ stmt.kind \in {"org", "space"}
       /\ Evaluates(eval(stmt.expr, symtab, pass1.loc))
    \/ stmt.kind = "instr" /\ KnownOpcode(stmt.opcode)
    \/ stmt.kind = "data" /\ \E k \in DOMAIN stmt.data : stmt.data[k].count = NoExpr

\* a statement of Pass 1 that asks for a location out of range fails with a
\* recorded error and leaves the counter where it was; Pass 2 emitting at
\* 0x10000 fails the same way
C28_Step ==
    /\ (Pass1Step /\ Moves(program[next]) /\ AsksFor(program[next]) \notin LocRange) =>
            /\ pass1'.errors > pass1.errors
            /\ pass1'.loc = pass1.loc
            /\ history'[next].p1 = "error"
    /\ (Pass2Step /\ pass2'.loc # pass2.loc /\ program[next].kind # "org") =>
            /\ pass2'.loc = pass2.loc + Len(history'[next].emitted)
            /\ pass2.loc + Len(history'[next].emitted) <= MemTop + 1

\* C28: at every point of Pass 1 and Pass 2 the location counter lies in
\* [0, 0x10000] and every image write of Pass 2 uses an index in
\* [0, 0xFFFF]; a statement that would move the counter out of this range
\* fails with a recorded error instead.
C28_CounterInRange == [](C28_State) /\ [][C28_Step]_vars

\* ORG $FFFF followed by BUF: BYTES 2 has failed with the recorded error and
\* left the counter at $FFFF
C28_Witness ==
    /\ pass1.loc = MemTop
    /\ \E k \in DOMAIN pass1.messages :
          /\ pass1.messages[k].text = "Location counter cannot exceed $FFFF."
          /\ ~pass1.messages[k].warning
          /\ program[pass1.messages[k].line].kind = "space"

(***************************************************************************)
(* C29: the cells of the image.                                            *)
(***************************************************************************)
\* the content of a cell: -1 where nothing was stored
Cell(cells, a) == IF a \in DOMAIN cells THEN cells[a] ELSE -1

\* the addresses whose cell differs between two images
ChangedCells(before, after) ==
    {a \in DOMAIN before \cup DOMAIN after : Cell(before, a) # Cell(after, a)}

\* once filled, every cell holds -1 (the cells nothing was stored in) or a
\* byte (the cells of the image that were stored)
C29_State ==
    image.filled =>
        /\ DOMAIN image.cells \subseteq 0..MemTop
        /\ \A a \in DOMAIN image.cells : Cell(image.cells, a) \in 0..ByteMax

\* between the fill and the end of the run a cell changes only in a step of
\* Pass 2, to the byte an emit of that step stored, at the address the
\* location counter had reached when it was emitted
C29_Step ==
    (image.filled /\ image'.filled /\ image'.cells # image.cells) =>
        /\ Pass2Step
        /\ LET emitted == history'[next].emitted
           IN  \A a \in ChangedCells(image.cells, image'.cells) :
                  /\ a \in pass2.loc..(pass2.loc + Len(emitted) - 1)
                  /\ image'.cells[a] = emitted[a - pass2.loc + 1]

\* C29: from the moment Pass 2 has filled the image until the end of the
\* run, every image cell holds -1 or an integer in [0, 255]; a cell changes
\* only through emit, and only at the address equal to the location counter
\* at the time of the emit.
C29_CellsAreBytes == [](C29_State) /\ [][C29_Step]_vars

\* BYTE $1FF has been emitted: its cell holds FF
C29_Witness ==
    /\ Assembled
    /\ \E i \in Stmts :
          /\ program[i].kind = "data"
          /\ history[i].emitted = <<255>>
          /\ Cell(image.cells, history[i].start2) = 255

====
